---- MODULE Spec2Model ----
(***************************************************************************)
(* JobMonitor: the append-only status store, the uptime calculator and the *)
(* cluster aggregator, modelled from internal/storage, internal/metrics    *)
(* and internal/cluster.                                                   *)
(*                                                                         *)
(* Time is a whole number of minutes.  A float64 percentage with two       *)
(* decimals is kept as an integer number of hundredths of a percent.       *)
(***************************************************************************)
EXTENDS Integers, Sequences, FiniteSets, TLC

(***************************************************************************)
(* Bounds of the model.                                                    *)
(***************************************************************************)
MaxTime == 4
MaxEntries == 3
MaxInterval == 2
MaxHistory == 3
MaxClock == 1
IntervalMinutes == 1
MaxBucket == 5
MaxSpan == 5
MaxPoints == 3
MaxSamples == 2
MaxConn == 3
MaxPushes == 3
MaxMessages == 3

VARIABLES
    uEntries,     \* ComputeServiceUptime: the entries argument
    uStart,       \* ComputeServiceUptime: start
    uEnd,         \* ComputeServiceUptime: end
    uInterval,    \* ComputeServiceUptime: interval
    uTargets,     \* ComputeServiceUptime: expectedTargets
    uResult,      \* what the last call returned, NoResult before any call
    now,          \* the wall clock, time.Now()
    proc,         \* the process: "up", "down" (crashed) or "fatal" (load failed)
    history,      \* StatusStorage.history
    version,      \* StatusStorage.version
    file,         \* the durable history file at s.path, NoFile when absent
    tmp,          \* the temporary file persist is writing, NoFile when absent
    apc,          \* where the Append that holds s.mu is: "idle", "persist", "rename"
    lastErr,      \* what the last Append returned, NoError for nil
    preHistory,   \* history variable: s.history when the last Append was called
    persisted,    \* history variable: the series the last successful persist wrote
    peersData,    \* Service.peersData: peer id -> PeerSnapshot, on the ids cached so far
    spc,          \* where the Snapshot call is: "idle", "latest", "peers", "done"
    sReq,         \* Snapshot: start, end (clamped) and now of the call in progress
    sLocal,       \* Snapshot: the local history, status and services gathered so far
    snap,         \* Snapshot: the ClusterSnapshot returned, NoSnapshot otherwise
    callLen,      \* history variable: len(s.history) when the Snapshot in progress was called
    lpc,          \* Service.run: "new", "fetch" (in fetchAllPeers), "select", "exit"
    cancelled,    \* s.ctx is cancelled
    ticker,       \* the ticker of run: "none", "running", "stopped"
    tickPending,  \* a tick waits in ticker.C, a channel with room for one
    fetchIdx,     \* fetchAllPeers: the index into s.peers
    fpc,          \* fetchPeer: the request to make next, "status" or "history"
    gotStatus,    \* fetchPeer: statusResp
    outcome,      \* history variable: per peer id, what its fetch of this cycle came to
    bEntries,     \* evaluateBucket: the samples of the bucket
    bResult,      \* what evaluateBucket returned, NoBucketResult before a call
    tSamples,     \* buildTimeline: samples
    tStart,       \* buildTimeline: start
    tEnd,         \* buildTimeline: end
    tPoints,      \* buildTimeline: points
    tOut,         \* what buildTimeline returned, NoTimeline before a call
    vOut,         \* what BuildServiceTimelines returned, NoServices before a call
    cEntries,     \* BuildConnectivityTimeline: entries
    cStart,       \* BuildConnectivityTimeline: start
    cEnd,         \* BuildConnectivityTimeline: end
    cPoints,      \* BuildConnectivityTimeline: points
    cOut,         \* what BuildConnectivityTimeline returned, NoTimeline before a call
    ret,          \* a reader of the store: the value its read returned, NoRead before
    pending,      \* Append: the entry argument while the call holds the lock
    mpc,          \* Monitor.run: "new", "round", "append", "select", "exit"
    mStopped,     \* Monitor: stopCh is closed
    mTick,        \* Monitor.run: a tick waits in ticker.C
    mErr,         \* Monitor.run: the error the last RunOnce returned, NoError for nil
    wpc,          \* serveOverviewConnection: "first", "loop", "returned"
    wReader,      \* its reader goroutine: "none", "running", "exited" (done is closed)
    wTicker,      \* its ticker: "none", "running", "stopped"
    wConn,        \* the websocket connection: "open", "closed"
    wClient,      \* the client: "connected", "gone"
    wTick,        \* a tick waits in ticker.C
    wSent,        \* payloads written to the connection
    wRead,        \* messages the reader has read and dropped
    kGroups,      \* pickServicesRoundRobin: groups
    kLimit,       \* pickServicesRoundRobin: limit
    kResult,      \* what pickServicesRoundRobin returned, NoPick before a call
    gNodes,       \* buildServiceGroups: snapshot.Nodes
    gResult,      \* what buildServiceGroups returned, NoGroups before a call
    oPoints,      \* mapTimelineToBuckets: points
    oBuckets,     \* mapTimelineToBuckets: buckets
    oResult,      \* what mapTimelineToBuckets returned, NoBuckets before a call
    xMu,          \* Service.mu: who holds the lock of the peer cache
    xStoreMu,     \* StatusStorage.mu: who holds the lock of the series
    xFetch,       \* the refresh goroutine in fetchPeer: "idle", "status", "history",
                  \* "fetched", "failed", "write"
    xSnap,        \* a Snapshot call: "idle", "since", "filter", "latest", "uptime",
                  \* "range", "peer-filter", "peer-uptime", "done"
    xLeft,        \* Snapshot: the entries of s.peersData still to materialise
    xRead,        \* another reader of the store: "idle", "copy"
    xApp,         \* an Append: "idle", "persist"
    xCached,      \* len(s.peersData)
    qEnabled,     \* ConnectivityMonitor.cfg.Enabled, TRUE for a Monitor
    qStopCh,      \* stopCh: "open", "closed"
    qDoneCh,      \* doneCh: "open", "closed"
    qRun,         \* the goroutine of run: "none", "first", "select", "exit"
    qStop,        \* per caller of Stop: "idle", "close", "wait", "returned", "panicked"
    qStarted,     \* Start has been called
    aFailed       \* history variable: the Appends that returned an error since
                  \* the process started

uptimeVars == <<uEntries, uStart, uEnd, uInterval, uTargets, uResult>>

storeVars == <<proc, history, version, file, tmp, apc, lastErr, preHistory, persisted>>

cacheVars == <<peersData>>

snapVars == <<spc, sReq, sLocal, snap, callLen>>

loopVars == <<lpc, cancelled, ticker, tickPending, fetchIdx, fpc, gotStatus, outcome>>

bucketVars == <<bEntries, bResult>>

timelineVars == <<tSamples, tStart, tEnd, tPoints, tOut, vOut>>

connVars == <<cEntries, cStart, cEnd, cPoints, cOut>>

readVars == <<ret, pending>>

monVars == <<mpc, mStopped, mTick, mErr>>

pushVars == <<wpc, wReader, wTicker, wConn, wClient, wTick, wSent, wRead>>

ovVars == <<kGroups, kLimit, kResult, gNodes, gResult, oPoints, oBuckets, oResult>>

lockVars == <<xMu, xStoreMu, xFetch, xSnap, xLeft, xRead, xApp, xCached>>

stopVars == <<qEnabled, qStopCh, qDoneCh, qRun, qStop, qStarted>>

auxVars == <<aFailed>>

restVars == <<bucketVars, timelineVars, connVars, readVars, monVars, pushVars, ovVars,
              lockVars, stopVars, auxVars>>

vars == <<uptimeVars, now, storeVars, cacheVars, snapVars, loopVars, restVars>>

(***************************************************************************)
(* Data: models.Target, models.CheckResult, models.StatusEntry.            *)
(***************************************************************************)
Max(a, b) == IF a >= b THEN a ELSE b
Min(a, b) == IF a <= b THEN a ELSE b

\* sort.Strings order of the ids of the model
IdOrder == <<"a", "b">>
Ids == {IdOrder[i] : i \in DOMAIN IdOrder}

\* the zero time.Time (IsZero), distinct from every timestamp of the model
ZeroTime == -1

Target(id, name) == [ID |-> id, Name |-> name]

CheckResult(id, name, ok, state) == [ID |-> id, Name |-> name, OK |-> ok, State |-> state]

StatusEntry(ts, checks) == [Timestamp |-> ts, Checks |-> checks]

\* the probe outcomes of the model
NameOf(id) == IF id = "a" THEN "Alpha" ELSE "Beta"

Passing(id) == CheckResult(id, NameOf(id), TRUE, "active")
Failing(id) == CheckResult(id, NameOf(id), FALSE, "failed")
\* a failed probe that reports no state at all
Silent(id) == CheckResult(id, NameOf(id), FALSE, "")

\* time.Time.UTC().Format(time.RFC3339): a text, not the time value
FormatRFC3339(t) == <<"rfc3339", t>>

(***************************************************************************)
(* metrics.ComputeServiceUptime                                            *)
(***************************************************************************)
\* acc{name: ...}: the zero-sample row a configured target or a first check seeds
NewAcc(name) == [name |-> name, passing |-> 0, failing |-> 0,
                 lastState |-> "", lastTime |-> ZeroTime]

\* a summary that starts without the configured targets
SeedTargets_None(targets) == [id \in {} |-> NewAcc("")]

\* summary: id -> acc, as a function on the ids seen so far
SeedTargets(targets) ==
    LET ids == {targets[i].ID : i \in DOMAIN targets}
        \* a later target of the same id overwrites the earlier one
        lastOf(id) == CHOOSE i \in DOMAIN targets :
                         /\ targets[i].ID = id
                         /\ \A j \in DOMAIN targets : targets[j].ID = id => j <= i
    IN  [id \in ids |-> NewAcc(targets[lastOf(id)].Name)]

AccCheck(summary, check, ts) ==
    LET cur == IF check.ID \in DOMAIN summary THEN summary[check.ID] ELSE NewAcc(check.Name)
        counted == IF check.OK THEN [cur EXCEPT !.passing = @ + 1]
                               ELSE [cur EXCEPT !.failing = @ + 1]
        next == IF check.State # ""
                THEN [counted EXCEPT !.lastState = check.State, !.lastTime = ts]
                ELSE counted
    IN  [id \in DOMAIN summary \cup {check.ID} |->
            IF id = check.ID THEN next ELSE summary[id]]

RECURSIVE AccChecks(_, _, _, _)
AccChecks(summary, checks, ts, i) ==
    IF i > Len(checks) THEN summary
    ELSE AccChecks(AccCheck(summary, checks[i], ts), checks, ts, i + 1)

RECURSIVE AccEntries(_, _, _)
AccEntries(summary, entries, i) ==
    IF i > Len(entries) THEN summary
    ELSE AccEntries(AccChecks(summary, entries[i].Checks, entries[i].Timestamp, 1),
                    entries, i + 1)

\* the slot count truncated instead of rounded up
CeilDiv_Floor(d, i) == d \div i

\* math.Ceil(float64(duration) / float64(interval)) for duration >= 0, interval > 0
CeilDiv(d, i) == (d + i - 1) \div i

ExpectedSlots(entries, start, end, interval) ==
    IF interval > 0
    THEN LET duration == Max(end - start, 0)
             slots == CeilDiv(duration, interval)
         IN  IF slots < Len(entries) THEN Len(entries) ELSE slots
    ELSE 0

MissingSlots(entries, start, end, interval) ==
    LET expectedSlots == ExpectedSlots(entries, start, end, interval)
    IN  IF expectedSlots > Len(entries) THEN expectedSlots - Len(entries) ELSE 0

\* the share of the failing checks instead of the passing ones
UptimePercent_Failing(passing, total) ==
    IF total > 0 THEN (2 * 10000 * (total - passing) + total) \div (2 * total) ELSE 0

\* round2(float64(passing) / float64(total) * 100), in hundredths of a percent:
\* math.Round rounds half away from zero
UptimePercent(passing, total) ==
    IF total > 0 THEN (2 * 10000 * passing + total) \div (2 * total) ELSE 0

SortedKeys(summary) == SelectSeq(IdOrder, LAMBDA id : id \in DOMAIN summary)

\* the missing slots reported but not counted as failing
UptimeRow_MissingNotFailing(id, data, missingSlots) ==
    LET total == data.passing + data.failing
    IN  [ID |-> id,
         Name |-> data.name,
         UptimePercent |-> UptimePercent(data.passing, total),
         TotalChecks |-> total,
         Passing |-> data.passing,
         Failing |-> data.failing,
         Missing |-> missingSlots,
         LastState |-> data.lastState,
         LastUpdated |-> IF data.lastTime # ZeroTime
                         THEN FormatRFC3339(data.lastTime) ELSE <<>>]

UptimeRow(id, data, missingSlots) ==
    LET failing == data.failing + missingSlots
        total == data.passing + failing
    IN  [ID |-> id,
         Name |-> data.name,
         UptimePercent |-> UptimePercent(data.passing, total),
         TotalChecks |-> total,
         Passing |-> data.passing,
         Failing |-> failing,
         Missing |-> missingSlots,
         LastState |-> data.lastState,
         LastUpdated |-> IF data.lastTime # ZeroTime
                         THEN FormatRFC3339(data.lastTime) ELSE <<>>]

ComputeServiceUptime(entries, start, end0, interval, expectedTargets) ==
    LET end == IF end0 < start THEN start ELSE end0
        summary == AccEntries(SeedTargets(expectedTargets), entries, 1)
        missingSlots == MissingSlots(entries, start, end, interval)
        keys == SortedKeys(summary)
    IN  IF DOMAIN summary = {} THEN <<>>
        ELSE [k \in DOMAIN keys |-> UptimeRow(keys[k], summary[keys[k]], missingSlots)]

(***************************************************************************)
(* storage.StatusStorage: the reads                                        *)
(***************************************************************************)
NoEntry == [Timestamp |-> ZeroTime, Checks |-> <<>>]

\* Latest(): the entry and the "it exists" flag
Latest(h) ==
    IF Len(h) = 0 THEN [entry |-> NoEntry, ok |-> FALSE]
    ELSE [entry |-> h[Len(h)], ok |-> TRUE]

\* History(): a copy of the whole slice
History(h) == [i \in 1 .. Len(h) |-> h[i]]

\* a bisection for the first entry after the cutoff
RECURSIVE SortSearch_After(_, _, _, _)
SortSearch_After(h, cutoff, i, j) ==
    IF i < j
    THEN LET m == (i + j) \div 2
         IN  IF h[m + 1].Timestamp <= cutoff
             THEN SortSearch_After(h, cutoff, m + 1, j)
             ELSE SortSearch_After(h, cutoff, i, m)
    ELSE i

\* sort.Search(n, f) over 0-based indexes: the least index in [0, n] with f true,
\* found by bisection
RECURSIVE SortSearch(_, _, _, _)
SortSearch(h, cutoff, i, j) ==
    IF i < j
    THEN LET m == (i + j) \div 2
         IN  IF h[m + 1].Timestamp < cutoff
             THEN SortSearch(h, cutoff, m + 1, j)
             ELSE SortSearch(h, cutoff, i, m)
    ELSE i

HistorySince(h, cutoff) ==
    IF Len(h) = 0 THEN <<>>
    ELSE LET idx == SortSearch(h, cutoff, 0, Len(h))
         IN  IF idx >= Len(h) THEN <<>>
             ELSE [k \in 1 .. (Len(h) - idx) |-> h[idx + k]]

\* the first n entries in place of the last
HistoryN_First(h, n) ==
    LET total == Len(h)
    IN  IF n <= 0 \/ n >= total THEN [i \in 1 .. total |-> h[i]]
        ELSE [k \in 1 .. n |-> h[k]]

HistoryN(h, n) ==
    LET total == Len(h)
    IN  IF n <= 0 \/ n >= total THEN [i \in 1 .. total |-> h[i]]
        ELSE [k \in 1 .. n |-> h[total - n + k]]

(***************************************************************************)
(* storage.StatusStorage: the file.  A file is a sequence of tokens; the   *)
(* serialization of a series is "[", one token per entry, "]".             *)
(***************************************************************************)
NoFile == << <<"absent">> >>
NoError == "nil"

\* json.MarshalIndent(s.history, "", "  ")
Marshal(h) == << <<"[">> >> \o [i \in 1 .. Len(h) |-> <<"entry", h[i]>>] \o << <<"]">> >>

\* json.Unmarshal(data, &entries)
Unmarshal(data) ==
    IF /\ Len(data) >= 2
       /\ data[1][1] = "[" /\ data[Len(data)][1] = "]"
       /\ \A i \in 2 .. (Len(data) - 1) : data[i][1] = "entry"
    THEN [ok |-> TRUE, entries |-> [i \in 1 .. (Len(data) - 2) |-> data[i + 1][2]]]
    ELSE [ok |-> FALSE, entries |-> <<>>]

\* what a write that does not complete can leave behind: nothing, or a strict prefix
PartialWrites(bytes) == {NoFile} \cup {SubSeq(bytes, 1, n) : n \in 0 .. (Len(bytes) - 1)}

\* load(): a missing or empty file is an empty series, an unparsable one is fatal
Load(f) ==
    IF f = NoFile \/ f = <<>> THEN [ok |-> TRUE, entries |-> <<>>]
    ELSE Unmarshal(f)

(***************************************************************************)
(* storage.StatusStorage: Append, persist, and the process around them     *)
(***************************************************************************)
\* the entry one polling round produces at the current time
Rounds == {<<Passing("a")>>, <<Failing("a")>>}

\* an Append that puts the entry in front of the series
AppendBegin_Prepend ==
    /\ proc = "up" /\ apc = "idle"
    /\ Len(history) < MaxHistory
    /\ \E checks \in Rounds : history' = <<StatusEntry(now, checks)>> \o history
    /\ version' = version + 1
    /\ preHistory' = history
    /\ apc' = "persist"
    /\ UNCHANGED <<proc, file, tmp, lastErr, persisted>>

\* Append: s.mu.Lock(); s.history = append(s.history, entry); s.version++
AppendBegin ==
    /\ proc = "up" /\ apc = "idle"
    /\ Len(history) < MaxHistory
    /\ \E checks \in Rounds : history' = Append(history, StatusEntry(now, checks))
    /\ version' = version + 1
    /\ preHistory' = history
    /\ apc' = "persist"
    /\ UNCHANGED <<proc, file, tmp, lastErr, persisted>>

\* a persist that writes the series of the durable file and the new entry
PersistWriteOk_FileAndEntry ==
    /\ proc = "up" /\ apc = "persist"
    /\ tmp' = Marshal(Append(Load(file).entries, history[Len(history)]))
    /\ apc' = "rename"
    /\ UNCHANGED <<proc, history, version, file, lastErr, preHistory, persisted>>

\* persist: os.WriteFile(tmpPath, bytes) succeeds
PersistWriteOk ==
    /\ proc = "up" /\ apc = "persist"
    /\ tmp' = Marshal(history)
    /\ apc' = "rename"
    /\ UNCHANGED <<proc, history, version, file, lastErr, preHistory, persisted>>

\* the bytes written to s.path itself, with no temporary file
PersistWriteFail_InPlace ==
    /\ proc = "up" /\ apc = "persist"
    /\ file' \in PartialWrites(Marshal(history))
    /\ lastErr' = "write temp history"
    /\ apc' = "idle"
    /\ UNCHANGED <<proc, history, version, tmp, preHistory, persisted>>

\* persist: os.WriteFile(tmpPath, bytes) fails; Append returns the error
PersistWriteFail ==
    /\ proc = "up" /\ apc = "persist"
    /\ tmp' \in PartialWrites(Marshal(history))
    /\ lastErr' = "write temp history"
    /\ apc' = "idle"
    /\ UNCHANGED <<proc, history, version, file, preHistory, persisted>>

\* persist: os.Rename(tmpPath, s.path) succeeds; Append returns nil
PersistRenameOk ==
    /\ proc = "up" /\ apc = "rename"
    /\ file' = tmp
    /\ tmp' = NoFile
    /\ persisted' = history
    /\ lastErr' = NoError
    /\ apc' = "idle"
    /\ UNCHANGED <<proc, history, version, preHistory>>

\* persist: os.Rename fails; the temporary file is removed, Append returns the error
PersistRenameFail ==
    /\ proc = "up" /\ apc = "rename"
    /\ tmp' = NoFile
    /\ lastErr' = "replace history file"
    /\ apc' = "idle"
    /\ UNCHANGED <<proc, history, version, file, preHistory, persisted>>

\* the monitor's rounds are a ticker period apart, and the period is a minute
\* at least: a round finds the last entry older than the clock
RoundDue == IF Len(history) = 0 THEN TRUE ELSE history[Len(history)].Timestamp < now

\* Append from Lock to Unlock when the write and the rename succeed
AppendPersisted ==
    /\ proc = "up" /\ apc = "idle"
    /\ \E checks \in Rounds : history' = Append(history, StatusEntry(now, checks))
    /\ version' = version + 1
    /\ preHistory' = history
    /\ file' = Marshal(history')
    /\ persisted' = history'
    /\ lastErr' = NoError
    /\ UNCHANGED <<proc, tmp, apc>>

\* the process dies: memory is lost, the files stay; a write in progress is cut short
Crash ==
    /\ proc = "up"
    /\ proc' = "down"
    /\ tmp' \in IF apc = "persist" THEN PartialWrites(Marshal(history)) ELSE {tmp}
    /\ history' = <<>> /\ version' = 0 /\ apc' = "idle"
    /\ lastErr' = NoError /\ preHistory' = <<>>
    /\ UNCHANGED <<file, persisted>>

\* NewStatusStorage: load the file; s.version = len(s.history)
Restart ==
    /\ proc = "down"
    /\ LET loaded == Load(file)
       IN  /\ proc' = IF loaded.ok THEN "up" ELSE "fatal"
           /\ history' = loaded.entries
           /\ version' = Len(loaded.entries)
    /\ UNCHANGED <<file, tmp, apc, lastErr, preHistory, persisted>>

\* the wall clock advances
Tick ==
    /\ now < MaxTime
    /\ now' = now + 1

StoreInit ==
    /\ proc = "up" /\ history = <<>> /\ version = 0
    /\ file = NoFile /\ tmp = NoFile /\ apc = "idle"
    /\ lastErr = NoError /\ preHistory = <<>> /\ persisted = <<>>

(***************************************************************************)
(* cluster.Service: the configuration, the cache entries and the pure      *)
(* helpers of service.go                                                   *)
(***************************************************************************)
DefaultHistoryCap == 200
WindowDay == 1440
WindowMonth == 43200

Node(id, name, interval) == [ID |-> id, Name |-> name, IntervalMinutes |-> interval]

\* config.Peer
Peer(id, name, baseURL, enabled) ==
    [ID |-> id, Name |-> name, BaseURL |-> baseURL, Enabled |-> enabled]

\* s.node, s.targets, s.interval, s.peers
LocalNode == Node("local", "Local", IntervalMinutes)
LocalTargets == <<Target("a", "Alpha")>>
LocalInterval == IntervalMinutes

\* s.historyCap as NewService sets it
HistoryCap ==
    IF LocalInterval > 0
    THEN Max(DefaultHistoryCap, (WindowMonth \div LocalInterval) + 5)
    ELSE DefaultHistoryCap
Peers == << Peer("p1", "", "http://p1/", TRUE),
            Peer("p2", "Peer Two", "/", TRUE),
            Peer("p3", "Peer Three", "http://p3", FALSE) >>

\* a nil *models.StatusEntry, and a pointer to an entry
NoStatus == [present |-> FALSE, entry |-> NoEntry]
StatusOf(e) == [present |-> TRUE, entry |-> e]

PeerSnapshot(node, status, hist, services, targets, updatedAt, error, source) ==
    [Node |-> node, Status |-> status, History |-> hist, Services |-> services,
     Targets |-> targets, UpdatedAt |-> updatedAt, Error |-> error, Source |-> source]

\* the entries dropped although they lie on the window's edges
FilterHistory_Strict(entries, start, end) ==
    SelectSeq(entries, LAMBDA e : e.Timestamp > start /\ e.Timestamp < end)

FilterHistory(entries, start, end) ==
    SelectSeq(entries, LAMBDA e : ~(e.Timestamp < start \/ e.Timestamp > end))

CapHistory(entries, limit) ==
    IF limit <= 0 \/ Len(entries) <= limit THEN entries
    ELSE [k \in 1 .. limit |-> entries[Len(entries) - limit + k]]

ResolveName(configured, remote, fallback) ==
    IF configured # "" THEN configured
    ELSE IF remote # "" THEN remote
    ELSE fallback

\* every check of the status, then of the history, in one sequence
RECURSIVE AllChecks(_, _)
AllChecks(entries, i) ==
    IF i > Len(entries) THEN <<>>
    ELSE entries[i].Checks \o AllChecks(entries, i + 1)

\* add(id, name) over a sequence of checks: the first occurrence of each id, "" skipped
RECURSIVE AddTargets(_, _, _)
AddTargets(targets, checks, i) ==
    IF i > Len(checks) THEN targets
    ELSE LET c == checks[i]
             seen == {targets[k].ID : k \in DOMAIN targets}
         IN  IF c.ID = "" \/ c.ID \in seen
             THEN AddTargets(targets, checks, i + 1)
             ELSE AddTargets(Append(targets, Target(c.ID, c.Name)), checks, i + 1)

DeriveTargets(status, hist) ==
    AddTargets(<<>>,
               (IF status.present THEN status.entry.Checks ELSE <<>>) \o AllChecks(hist, 1),
               1)

WindowKey(start, end) ==
    IF end - start >= WindowMonth THEN "30d"
    ELSE IF end - start >= WindowDay THEN "24h"
    ELSE ""

\* fetchAllPeers, the error branch: what replaces the cache entry of a failed peer
ErrorSnapshot(peer, err, at) ==
    PeerSnapshot(Node(peer.ID, peer.Name, 0), NoStatus, <<>>, <<>>, <<>>, at, err, "peer")

\* fetchPeer, the success branch: the entry built from the two responses
FetchedSnapshot(peer, statusResp, historyResp, at) ==
    PeerSnapshot(Node(peer.ID,
                      ResolveName(peer.Name, statusResp.Node.Name, peer.ID),
                      statusResp.Node.IntervalMinutes),
                 statusResp.Status,
                 CapHistory(historyResp, HistoryCap),
                 <<>>,
                 DeriveTargets(statusResp.Status, historyResp),
                 at, "", "peer")

\* s.peersData[id] = entry
CachePut(cache, id, entry) ==
    [k \in DOMAIN cache \cup {id} |-> IF k = id THEN entry ELSE cache[k]]

\* localSnapshot, first lines: s.storage.HistorySince(start), then filterHistory
LocalHistory(h, start, end) == FilterHistory(HistorySince(h, start), start, end)

\* localSnapshot, the rest: hist is the history gathered, latest what Latest() returned
LocalSnapshot(hist, latest, start, end, at) ==
    PeerSnapshot(Node(LocalNode.ID, LocalNode.Name, LocalInterval),
                 IF latest.ok THEN StatusOf(latest.entry) ELSE NoStatus,
                 hist,
                 ComputeServiceUptime(hist, start, end, LocalInterval, LocalTargets),
                 LocalTargets, at, "", "local")

\* the cached entry handed out as it is
MaterialisePeerSnapshot_Verbatim(snapshot, start, end) == snapshot

MaterialisePeerSnapshot(snapshot, start, end) ==
    LET hist == FilterHistory(snapshot.History, start, end)
        interval == IF snapshot.Node.IntervalMinutes <= 0 THEN LocalInterval
                    ELSE snapshot.Node.IntervalMinutes
        endpoint == IF end < start THEN start ELSE end
    IN  PeerSnapshot(snapshot.Node, snapshot.Status, hist,
                     ComputeServiceUptime(hist, start, endpoint, interval, snapshot.Targets),
                     snapshot.Targets, snapshot.UpdatedAt, snapshot.Error, snapshot.Source)

ClusterSnapshot(at, start, end, nodes) ==
    [GeneratedAt |-> at, Range |-> WindowKey(start, end),
     RangeStart |-> start, RangeEnd |-> end, Nodes |-> nodes]

(***************************************************************************)
(* cluster.Service: what a peer answers, and the cache writes of one fetch *)
(***************************************************************************)
\* the series a peer holds at time t
RemoteSeries(t) ==
    { <<>>,
      <<StatusEntry(0, <<Passing("b")>>)>>,
      <<StatusEntry(0, <<Passing("b")>>), StatusEntry(t, <<Failing("a"), Passing("b")>>)>> }

\* /api/node/status of a peer that holds series r; its interval is not the local one
StatusResponse(peer, r) ==
    [Node |-> Node("remote", "Remote", IntervalMinutes + 1),
     Status |-> IF Len(r) = 0 THEN NoStatus ELSE StatusOf(r[Len(r)])]

\* strings.TrimSuffix(peer.BaseURL, "/") as far as fetchPeer looks at it: empty or not
TrimSuffix(baseURL) == IF baseURL = "/" THEN "" ELSE baseURL

\* the errors fetchPeer can return for a peer
FetchErrors(peer) ==
    IF TrimSuffix(peer.BaseURL) = "" THEN {"empty base_url"}
    ELSE {"status fetch failed", "history fetch failed"}

\* the failed peer left as the cache has it
FetchFailed_Skip(peer, err) == UNCHANGED peersData

\* the error of one peer written into every entry of the cache
FetchFailed_Everywhere(peer, err) ==
    peersData' = [k \in DOMAIN peersData \cup {peer.ID} |->
                     IF k = peer.ID THEN ErrorSnapshot(peer, err, now)
                     ELSE [peersData[k] EXCEPT !.Error = err]]

\* fetchAllPeers: fetchPeer(peer) returned err
FetchFailed(peer, err) ==
    peersData' = CachePut(peersData, peer.ID, ErrorSnapshot(peer, err, now))

\* fetchPeer: both requests answered, the entry is stored under s.mu
FetchStored(peer, statusResp, historyResp) ==
    peersData' = CachePut(peersData, peer.ID,
                          FetchedSnapshot(peer, statusResp, historyResp, now))

\* one peer of a refresh cycle, from the first request to the cache write
FetchPeer ==
    \E i \in DOMAIN Peers :
        /\ Peers[i].Enabled
        /\ \/ \E err \in FetchErrors(Peers[i]) : FetchFailed(Peers[i], err)
           \/ /\ TrimSuffix(Peers[i].BaseURL) # ""
              /\ \E r \in RemoteSeries(now) :
                    FetchStored(Peers[i], StatusResponse(Peers[i], r), r)

CacheInit == peersData = <<>>

(***************************************************************************)
(* cluster.Service: Start, Stop and the refresh loop of run.  A request of *)
(* getJSON is one step: it fails when s.ctx is cancelled, and otherwise    *)
(* the peer answers or the request fails.                                  *)
(***************************************************************************)
NoResponse == [Node |-> Node("", "", 0), Status |-> NoStatus]

\* what the fetch of a peer came to in the cycle in progress
NotFetched == [kind |-> "none"]
Fetched(statusResp, historyResp, at) ==
    [kind |-> "ok", status |-> statusResp, hist |-> historyResp, at |-> at]
Failed(err, at) == [kind |-> "err", err |-> err, at |-> at]

EnabledIds == {Peers[i].ID : i \in {k \in DOMAIN Peers : Peers[k].Enabled}}

\* a cycle begins: fetchAllPeers is entered
BeginCycle ==
    /\ lpc' = "fetch"
    /\ fetchIdx' = 1
    /\ fpc' = "status"
    /\ gotStatus' = NoResponse
    /\ outcome' = [id \in EnabledIds |-> NotFetched]

\* fetchAllPeers moves on to the next peer
NextPeer ==
    /\ fetchIdx' = fetchIdx + 1
    /\ fpc' = "status"
    /\ gotStatus' = NoResponse

InFetch == lpc = "fetch" /\ fetchIdx <= Len(Peers)

\* a loop that waits for its first tick before it fetches
Start_WaitFirst ==
    /\ lpc = "new"
    /\ lpc' = IF Len(Peers) = 0 THEN "exit" ELSE "select"
    /\ ticker' = IF Len(Peers) = 0 THEN ticker ELSE "running"
    /\ UNCHANGED <<cancelled, tickPending, fetchIdx, fpc, gotStatus, outcome, peersData>>

\* Start: go s.run(); run returns at once without peers, and otherwise makes
\* its ticker and enters the first fetchAllPeers
Start ==
    /\ lpc = "new"
    /\ IF Len(Peers) = 0
       THEN /\ lpc' = "exit"
            /\ UNCHANGED <<ticker, fetchIdx, fpc, gotStatus, outcome>>
       ELSE /\ ticker' = "running"
            /\ BeginCycle
    /\ UNCHANGED <<cancelled, tickPending, peersData>>

\* Stop: s.cancel(), at any time and any number of times
Stop ==
    /\ cancelled' = TRUE
    /\ UNCHANGED <<lpc, ticker, tickPending, fetchIdx, fpc, gotStatus, outcome, peersData>>

\* the period of the ticker elapses: the tick is kept if ticker.C has room
TimerFire ==
    /\ ticker = "running"
    /\ ~tickPending
    /\ tickPending' = TRUE
    /\ UNCHANGED <<lpc, cancelled, ticker, fetchIdx, fpc, gotStatus, outcome, peersData>>

\* fetchAllPeers: a peer that is not enabled is passed over
FetchSkip ==
    /\ InFetch
    /\ ~Peers[fetchIdx].Enabled
    /\ NextPeer
    /\ UNCHANGED <<lpc, cancelled, ticker, tickPending, outcome, peersData>>

\* fetchPeer: the base URL is empty, or the status request fails
FetchStatusFail ==
    /\ InFetch
    /\ Peers[fetchIdx].Enabled
    /\ fpc = "status"
    /\ LET peer == Peers[fetchIdx]
           err == IF TrimSuffix(peer.BaseURL) = "" THEN "empty base_url"
                  ELSE "status fetch failed"
       IN  /\ FetchFailed(peer, err)
           /\ outcome' = [outcome EXCEPT ![peer.ID] = Failed(err, now)]
    /\ NextPeer
    /\ UNCHANGED <<lpc, cancelled, ticker, tickPending>>

\* fetchPeer: the status request is answered
FetchStatusOk ==
    /\ InFetch
    /\ Peers[fetchIdx].Enabled
    /\ fpc = "status"
    /\ TrimSuffix(Peers[fetchIdx].BaseURL) # ""
    /\ ~cancelled
    /\ \E r \in RemoteSeries(now) : gotStatus' = StatusResponse(Peers[fetchIdx], r)
    /\ fpc' = "history"
    /\ UNCHANGED <<lpc, cancelled, ticker, tickPending, fetchIdx, outcome, peersData>>

\* fetchPeer: the history request fails
FetchHistoryFail ==
    /\ InFetch
    /\ fpc = "history"
    /\ FetchFailed(Peers[fetchIdx], "history fetch failed")
    /\ outcome' = [outcome EXCEPT ![Peers[fetchIdx].ID] =
                                      Failed("history fetch failed", now)]
    /\ NextPeer
    /\ UNCHANGED <<lpc, cancelled, ticker, tickPending>>

\* fetchPeer: the history request is answered and the entry is stored
FetchHistoryOk ==
    /\ InFetch
    /\ fpc = "history"
    /\ ~cancelled
    /\ \E r \in RemoteSeries(now) :
          /\ FetchStored(Peers[fetchIdx], gotStatus, r)
          /\ outcome' = [outcome EXCEPT ![Peers[fetchIdx].ID] = Fetched(gotStatus, r, now)]
    /\ NextPeer
    /\ UNCHANGED <<lpc, cancelled, ticker, tickPending>>

\* fetchAllPeers returns: run reaches its select
CycleEnd ==
    /\ lpc = "fetch"
    /\ fetchIdx > Len(Peers)
    /\ lpc' = "select"
    /\ UNCHANGED <<cancelled, ticker, tickPending, fetchIdx, fpc, gotStatus, outcome,
                   peersData>>

\* select takes the case <-ticker.C: it may whenever a tick waits, whether or
\* not s.ctx.Done() is ready too
SelectTick ==
    /\ lpc = "select"
    /\ tickPending
    /\ tickPending' = FALSE
    /\ BeginCycle
    /\ UNCHANGED <<cancelled, ticker, peersData>>

\* select takes the case <-s.ctx.Done(): run returns, the deferred
\* ticker.Stop() runs
SelectDone ==
    /\ lpc = "select"
    /\ cancelled
    /\ lpc' = "exit"
    /\ ticker' = "stopped"
    /\ UNCHANGED <<cancelled, tickPending, fetchIdx, fpc, gotStatus, outcome, peersData>>

LoopInit ==
    /\ lpc = "new" /\ cancelled = FALSE /\ ticker = "none" /\ tickPending = FALSE
    /\ fetchIdx = 1 /\ fpc = "status" /\ gotStatus = NoResponse
    /\ outcome = [id \in EnabledIds |-> NotFetched]

(***************************************************************************)
(* cluster.Service.Snapshot.  The call reads the store twice and the cache *)
(* once, each under its own lock, so appends and cache writes can fall     *)
(* between the three steps.                                                *)
(***************************************************************************)
NoSnapshot == ClusterSnapshot(ZeroTime, 0, 0, <<>>)
NoRequest == [start |-> 0, end |-> 0, at |-> ZeroTime]
NoLocal == PeerSnapshot(Node("", "", 0), NoStatus, <<>>, <<>>, <<>>, ZeroTime, "", "")

\* the orders a range over the map can visit the ids in
Orders(S) ==
    {o \in [1 .. Cardinality(S) -> S] : \A i, j \in DOMAIN o : i # j => o[i] # o[j]}

\* the local snapshot served from what the previous call left behind
SnapshotCall_Stale ==
    /\ spc = "idle" /\ apc = "idle"
    /\ \E start \in 0 .. 1, end0 \in 0 .. (MaxClock + 1) :
          LET end == IF end0 > now THEN now ELSE end0
          IN  /\ sReq' = [start |-> start, end |-> end, at |-> now]
              /\ sLocal' = [NoLocal EXCEPT !.History =
                               LocalHistory(SubSeq(history, 1, callLen), start, end)]
    /\ callLen' = Len(history)
    /\ spc' = "latest"
    /\ snap' = NoSnapshot

\* Snapshot: now, the clamp of end, and localSnapshot up to HistorySince
SnapshotCall ==
    /\ spc = "idle" /\ apc = "idle"
    /\ \E start \in 0 .. 1, end0 \in 0 .. (MaxClock + 1) :
          LET end == IF end0 > now THEN now ELSE end0
          IN  /\ sReq' = [start |-> start, end |-> end, at |-> now]
              /\ sLocal' = [NoLocal EXCEPT !.History = LocalHistory(history, start, end)]
    /\ callLen' = Len(history)
    /\ spc' = "latest"
    /\ snap' = NoSnapshot

\* the local numbers withheld while a peer is in error
SnapshotLatest_PeerAware ==
    /\ spc = "latest" /\ apc = "idle"
    /\ sLocal' = LocalSnapshot(
                     IF \E id \in DOMAIN peersData : peersData[id].Error # ""
                     THEN <<>> ELSE sLocal.History,
                     Latest(history), sReq.start, sReq.end, now)
    /\ spc' = "peers"
    /\ UNCHANGED <<sReq, snap, callLen>>

\* localSnapshot from s.storage.Latest() to its return
SnapshotLatest ==
    /\ spc = "latest" /\ apc = "idle"
    /\ sLocal' = LocalSnapshot(sLocal.History, Latest(history), sReq.start, sReq.end, now)
    /\ spc' = "peers"
    /\ UNCHANGED <<sReq, snap, callLen>>

\* the range over s.peersData under s.mu.RLock(), and the return
SnapshotPeers ==
    /\ spc = "peers"
    /\ \E o \in Orders(DOMAIN peersData) :
          snap' = ClusterSnapshot(sReq.at, sReq.start, sReq.end,
                     <<sLocal>> \o
                     [k \in DOMAIN o |->
                         MaterialisePeerSnapshot(peersData[o[k]], sReq.start, sReq.end)])
    /\ spc' = "done"
    /\ UNCHANGED <<sReq, sLocal, callLen>>

\* the caller has taken the result
SnapshotReturn ==
    /\ spc = "done"
    /\ spc' = "idle"
    /\ sReq' = NoRequest /\ sLocal' = NoLocal /\ snap' = NoSnapshot
    /\ UNCHANGED callLen

SnapInit ==
    /\ spc = "idle" /\ sReq = NoRequest /\ sLocal = NoLocal
    /\ snap = NoSnapshot /\ callLen = 0

(***************************************************************************)
(* history: the samples of a service and evaluateBucket of timeline.go.    *)
(* A nil slice of details is the empty sequence.                           *)
(***************************************************************************)
MaxDetailsPerPoint == 4

\* history.sample
Sample(ts, ok, state, error) ==
    [Timestamp |-> ts, OK |-> ok, State |-> state, Error |-> error]

\* strings.ToLower on the states and names of the model
ToLower(state) ==
    CASE state = "Failed" -> "failed"
      [] state = "Running" -> "running"
      [] state = "Alpha" -> "alpha"
      [] state = "Beta" -> "beta"
      [] state = "Local" -> "local"
      [] state = "State-Error" -> "state-error"
      [] OTHER -> state

WarningStates == {"activating", "deactivating", "reloading", "maintenance"}

IsWarningState(state) == state \in WarningStates

\* models.TimelineDetail of a sample
TimelineDetail(entry) ==
    [Timestamp |-> entry.Timestamp, State |-> entry.State, Error |-> entry.Error]

\* every triggering sample kept, however many
AppendDetail_Unbounded(details, entry) == Append(details, TimelineDetail(entry))

AppendDetail(details, entry) ==
    IF Len(details) >= MaxDetailsPerPoint THEN details
    ELSE Append(details, TimelineDetail(entry))

\* evaluateBucket: errorState of a sample
ErrorState(entry) ==
    LET state == ToLower(entry.State)
    IN  ~entry.OK /\ (state \in {"inactive", "failed", "degraded"}
                      \/ (state = "" /\ entry.Error # ""))

\* a switch that takes the OK flag alone for a success
SampleClass_OkOnly(entry) ==
    LET state == ToLower(entry.State)
    IN  IF ErrorState(entry) THEN "error"
        ELSE IF entry.OK THEN "success"
        ELSE IF state = "missing" THEN "missing"
        ELSE IF IsWarningState(state) THEN "warning"
        ELSE IF state = "" \/ state = "unknown" THEN "missing"
        ELSE "error"

\* evaluateBucket: the case of the switch a sample falls in
SampleClass(entry) ==
    LET state == ToLower(entry.State)
    IN  IF ErrorState(entry) THEN "error"
        ELSE IF entry.OK \/ state = "active" \/ state = "running" THEN "success"
        ELSE IF state = "missing" THEN "missing"
        ELSE IF IsWarningState(state) THEN "warning"
        ELSE IF state = "" \/ state = "unknown" THEN "missing"
        ELSE IF entry.OK THEN "success" ELSE "error"

NoFlags ==
    [hasError |-> FALSE, hasWarning |-> FALSE, hasSuccess |-> FALSE,
     hasMissing |-> FALSE, details |-> <<>>]

\* evaluateBucket: one turn of the loop over the samples
BucketStep(acc, entry) ==
    LET class == SampleClass(entry)
    IN  [hasError |-> acc.hasError \/ class = "error",
         hasWarning |-> acc.hasWarning \/ class = "warning",
         hasSuccess |-> acc.hasSuccess \/ class = "success",
         hasMissing |-> acc.hasMissing \/ class = "missing",
         details |-> IF class \in {"error", "warning"}
                     THEN AppendDetail(acc.details, entry) ELSE acc.details]

RECURSIVE BucketLoop(_, _, _)
BucketLoop(acc, entries, i) ==
    IF i > Len(entries) THEN acc
    ELSE BucketLoop(BucketStep(acc, entries[i]), entries, i + 1)

BucketResult(className, label, details) ==
    [ClassName |-> className, Label |-> label, Details |-> details]

\* the final switch with warning put above missing
EvaluateBucket_WarningFirst(entries) ==
    IF Len(entries) = 0 THEN BucketResult("state-missing", "No data", <<>>)
    ELSE LET acc == BucketLoop(NoFlags, entries, 1)
         IN  IF acc.hasError THEN BucketResult("state-error", "Unavailable", acc.details)
             ELSE IF acc.hasWarning
                  THEN BucketResult("state-warning", "Transitioning", acc.details)
             ELSE IF acc.hasMissing THEN BucketResult("state-missing", "No data", acc.details)
             ELSE IF acc.hasSuccess THEN BucketResult("state-success", "Operational", <<>>)
             ELSE BucketResult("state-missing", "No data", acc.details)

\* the final switch with missing only where nothing succeeded or warned
EvaluateBucket_MissingLast(entries) ==
    IF Len(entries) = 0 THEN BucketResult("state-missing", "No data", <<>>)
    ELSE LET acc == BucketLoop(NoFlags, entries, 1)
         IN  IF acc.hasError THEN BucketResult("state-error", "Unavailable", acc.details)
             ELSE IF acc.hasWarning
                  THEN BucketResult("state-warning", "Transitioning", acc.details)
             ELSE IF acc.hasSuccess THEN BucketResult("state-success", "Operational", <<>>)
             ELSE BucketResult("state-missing", "No data", acc.details)

EvaluateBucket(entries) ==
    IF Len(entries) = 0 THEN BucketResult("state-missing", "No data", <<>>)
    ELSE LET acc == BucketLoop(NoFlags, entries, 1)
         IN  IF acc.hasError THEN BucketResult("state-error", "Unavailable", acc.details)
             ELSE IF acc.hasMissing THEN BucketResult("state-missing", "No data", acc.details)
             ELSE IF acc.hasWarning
                  THEN BucketResult("state-warning", "Transitioning", acc.details)
             ELSE IF acc.hasSuccess THEN BucketResult("state-success", "Operational", <<>>)
             ELSE BucketResult("state-missing", "No data", acc.details)

\* the samples a bucket can hold, by OK, State and Error; the timestamp is
\* given when the sample is observed
SampleKinds ==
    { Sample(0, FALSE, "failed", ""),
      Sample(0, FALSE, "Failed", "exit 1"),
      Sample(0, FALSE, "", ""),
      Sample(0, TRUE, "active", ""),
      Sample(0, FALSE, "Running", ""),
      Sample(0, FALSE, "activating", ""),
      Sample(0, FALSE, "stuck", "") }

NoBucketResult == [done |-> FALSE, out |-> BucketResult("", "", <<>>)]

BucketInit == bEntries = <<>> /\ bResult = NoBucketResult

\* one more sample falls into the bucket
BObserve ==
    /\ Len(bEntries) < MaxBucket
    /\ \E k \in SampleKinds :
          bEntries' = Append(bEntries, [k EXCEPT !.Timestamp = Len(bEntries) + 1])
    /\ bResult' = NoBucketResult

\* evaluateBucket(bEntries) is called and returns
BEvaluate ==
    /\ ~bResult.done
    /\ bResult' = [done |-> TRUE, out |-> EvaluateBucket(bEntries)]
    /\ UNCHANGED bEntries

(***************************************************************************)
(* history: buildTimeline and collectBucketSamples.  The builder divides   *)
(* durations, so its clock counts the smallest unit of time.Duration; a    *)
(* minute is TimelineMinute of them, longer than any window of the model.  *)
(***************************************************************************)
TimelineMinute == 8

\* sort.Slice by Timestamp: the sample is put behind those not after it
RECURSIVE InsertSample(_, _)
InsertSample(sorted, e) ==
    IF Len(sorted) = 0 THEN <<e>>
    ELSE IF e.Timestamp < sorted[Len(sorted)].Timestamp
         THEN Append(InsertSample(SubSeq(sorted, 1, Len(sorted) - 1), e),
                     sorted[Len(sorted)])
         ELSE Append(sorted, e)

RECURSIVE SortSamples(_)
SortSamples(samples) ==
    IF Len(samples) = 0 THEN <<>>
    ELSE InsertSample(SortSamples(SubSeq(samples, 1, Len(samples) - 1)),
                      samples[Len(samples)])

\* collectBucketSamples: the first index from i on whose sample is not before t
RECURSIVE SkipBefore(_, _, _)
SkipBefore(samples, i, t) ==
    IF i <= Len(samples) /\ samples[i].Timestamp < t
    THEN SkipBefore(samples, i + 1, t)
    ELSE i

\* collectBucketSamples; the cursor counts from 1
CollectBucketSamples(samples, start, end, cursor) ==
    IF Len(samples) = 0 \/ cursor > Len(samples)
    THEN [chunk |-> <<>>, cursor |-> cursor]
    ELSE LET i == SkipBefore(samples, cursor, start)
             j == SkipBefore(samples, i, end)
         IN  [chunk |-> IF i >= j THEN <<>> ELSE SubSeq(samples, i, j - 1),
              cursor |-> j]

TimelinePoint(class, label, start, end, details) ==
    [ClassName |-> class, Label |-> label, Start |-> start, End |-> end,
     Details |-> details]

\* buildTimeline: bucketDuration
BucketDuration(start, end, points) ==
    IF (end - start) \div points <= 0 THEN TimelineMinute
    ELSE (end - start) \div points

\* buildTimeline: the loop from bucket i (counted from 0) on
RECURSIVE TimelineLoop(_, _, _, _, _, _)
TimelineLoop(samples, start, end, points, i, cursor) ==
    IF i >= points THEN <<>>
    ELSE LET width == BucketDuration(start, end, points)
             bucketStart == start + i * width
             bucketEnd == IF i = points - 1 THEN end ELSE bucketStart + width
             got == CollectBucketSamples(samples, bucketStart, bucketEnd, cursor)
             res == EvaluateBucket(got.chunk)
         IN  <<TimelinePoint(res.ClassName, res.Label, bucketStart, bucketEnd,
                             res.Details)>>
             \o TimelineLoop(samples, start, end, points, i + 1, got.cursor)

BuildTimeline(samples, start, end, points) ==
    IF points <= 0 THEN <<>>
    ELSE TimelineLoop(SortSamples(samples), start, end, points, 0, 1)

NoTimeline == [done |-> FALSE, points |-> <<>>]

NoServices == [done |-> FALSE, targets |-> <<>>, services |-> <<>>]

\* the arguments of a call: any window with end after start, any count of
\* buckets above 0
TimelineInit ==
    /\ tSamples = <<>>
    /\ tStart \in 0 .. 1
    /\ tEnd \in (tStart + 1) .. (tStart + MaxSpan)
    /\ tPoints \in 1 .. MaxPoints
    /\ tOut = NoTimeline
    /\ vOut = NoServices

TimelineIdle ==
    /\ tSamples = <<>> /\ tStart = 0 /\ tEnd = 0 /\ tPoints = 0 /\ tOut = NoTimeline
    /\ vOut = NoServices

\* one more sample of the service, at any time around the window
TObserve ==
    /\ Len(tSamples) < MaxSamples
    /\ \E k \in {Sample(0, FALSE, "failed", ""), Sample(0, TRUE, "active", "")},
          ts \in 0 .. (MaxSpan + 2) :
          tSamples' = Append(tSamples, [k EXCEPT !.Timestamp = ts])
    /\ tOut' = NoTimeline
    /\ UNCHANGED <<tStart, tEnd, tPoints, vOut>>

\* buildTimeline is called and returns
TBuild ==
    /\ ~tOut.done
    /\ tOut' = [done |-> TRUE, points |-> BuildTimeline(tSamples, tStart, tEnd, tPoints)]
    /\ UNCHANGED <<tSamples, tStart, tEnd, tPoints, vOut>>

(***************************************************************************)
(* history: BuildConnectivityTimeline, on the clock of buildTimeline.      *)
(***************************************************************************)
DefaultTimelinePoints == 80

\* models.ConnectivityStatus
ConnectivityStatus(ok, error, checkedAt) ==
    [OK |-> ok, Error |-> error, CheckedAt |-> checkedAt]

\* sort.Slice by CheckedAt: the sample is put behind those not after it
RECURSIVE InsertStatus(_, _)
InsertStatus(sorted, e) ==
    IF Len(sorted) = 0 THEN <<e>>
    ELSE IF e.CheckedAt < sorted[Len(sorted)].CheckedAt
         THEN Append(InsertStatus(SubSeq(sorted, 1, Len(sorted) - 1), e),
                     sorted[Len(sorted)])
         ELSE Append(sorted, e)

RECURSIVE SortStatuses(_)
SortStatuses(samples) ==
    IF Len(samples) = 0 THEN <<>>
    ELSE InsertStatus(SortStatuses(SubSeq(samples, 1, Len(samples) - 1)),
                      samples[Len(samples)])

\* sort.Slice of the durations
RECURSIVE InsertDuration(_, _)
InsertDuration(sorted, x) ==
    IF Len(sorted) = 0 THEN <<x>>
    ELSE IF x < sorted[Len(sorted)]
         THEN Append(InsertDuration(SubSeq(sorted, 1, Len(sorted) - 1), x),
                     sorted[Len(sorted)])
         ELSE Append(sorted, x)

RECURSIVE SortDurations(_)
SortDurations(xs) ==
    IF Len(xs) = 0 THEN <<>>
    ELSE InsertDuration(SortDurations(SubSeq(xs, 1, Len(xs) - 1)), xs[Len(xs)])

\* deriveConnectivityGap: the positive differences of neighbours, from sample i on
RECURSIVE GapDiffs(_, _)
GapDiffs(samples, i) ==
    IF i > Len(samples) THEN <<>>
    ELSE (IF samples[i].CheckedAt > samples[i - 1].CheckedAt
          THEN <<samples[i].CheckedAt - samples[i - 1].CheckedAt>> ELSE <<>>)
         \o GapDiffs(samples, i + 1)

DefaultGap == 5 * TimelineMinute
MaxGap == 120 * TimelineMinute

\* twice the largest difference instead of twice the middle one
DeriveConnectivityGap_Largest(samples) ==
    IF Len(samples) < 2 THEN DefaultGap
    ELSE LET diffs == SortDurations(GapDiffs(samples, 2))
         IN  IF Len(diffs) = 0 THEN DefaultGap
             ELSE LET gap == diffs[Len(diffs)] * 2
                  IN  IF gap < TimelineMinute THEN TimelineMinute
                      ELSE IF gap > MaxGap THEN MaxGap
                      ELSE gap

DeriveConnectivityGap(samples) ==
    IF Len(samples) < 2 THEN DefaultGap
    ELSE LET diffs == SortDurations(GapDiffs(samples, 2))
         IN  IF Len(diffs) = 0 THEN DefaultGap
             ELSE LET median == diffs[(Len(diffs) \div 2) + 1]
                      gap == median * 2
                  IN  IF median <= 0 THEN DefaultGap
                      ELSE IF gap < TimelineMinute THEN TimelineMinute
                      ELSE IF gap > MaxGap THEN MaxGap
                      ELSE gap

ConnectivityState(status) ==
    IF status.OK THEN "online"
    ELSE IF status.Error # "" THEN "offline"
    ELSE "unknown"

ConnectivityDetail(status) ==
    [Timestamp |-> status.CheckedAt, State |-> ConnectivityState(status),
     Error |-> status.Error]

ConnectivityClass(status) ==
    IF status.OK THEN [ClassName |-> "state-success", Label |-> "Operational"]
    ELSE IF status.Error # "" THEN [ClassName |-> "state-error", Label |-> "Unavailable"]
    ELSE [ClassName |-> "state-warning", Label |-> "Unknown"]

\* the first index from i on whose sample is after t
RECURSIVE SkipThrough(_, _, _)
SkipThrough(samples, i, t) ==
    IF i <= Len(samples) /\ samples[i].CheckedAt <= t
    THEN SkipThrough(samples, i + 1, t)
    ELSE i

\* the first index from i on whose sample is not before t
RECURSIVE SkipStatusBefore(_, _, _)
SkipStatusBefore(samples, i, t) ==
    IF i <= Len(samples) /\ samples[i].CheckedAt < t
    THEN SkipStatusBefore(samples, i + 1, t)
    ELSE i

\* one bucket that takes the class of the last sample however old it is
ConnectivityPoint_NoGap(samples, idx, bucketStart, bucketEnd, gapThreshold) ==
    LET next == SkipThrough(samples, idx, bucketEnd)
        class == IF next > 1 THEN ConnectivityClass(samples[next - 1])
                 ELSE [ClassName |-> "state-missing", Label |-> "No data"]
    IN  [point |-> TimelinePoint(class.ClassName, class.Label, bucketStart, bucketEnd, <<>>),
         idx |-> next]

\* one bucket that is ERROR when any of its samples carries an error text
ConnectivityPoint_ErrorWins(samples, idx, bucketStart, bucketEnd, gapThreshold) ==
    LET next == SkipThrough(samples, idx, bucketEnd)
        bucketSamples == SubSeq(samples, idx, next - 1)
        haveLast == next > 1
        last == IF haveLast THEN samples[next - 1] ELSE ConnectivityStatus(FALSE, "", ZeroTime)
        class == IF \E k \in DOMAIN bucketSamples :
                        ~bucketSamples[k].OK /\ bucketSamples[k].Error # ""
                 THEN [ClassName |-> "state-error", Label |-> "Unavailable"]
                 ELSE IF Len(bucketSamples) > 0
                 THEN ConnectivityClass(bucketSamples[Len(bucketSamples)])
                 ELSE IF haveLast /\ bucketStart - last.CheckedAt <= gapThreshold
                 THEN ConnectivityClass(last)
                 ELSE [ClassName |-> "state-missing", Label |-> "No data"]
    IN  [point |-> TimelinePoint(class.ClassName, class.Label, bucketStart, bucketEnd, <<>>),
         idx |-> next]

\* BuildConnectivityTimeline: one bucket.  idx counts from 1; the sample at
\* idx - 1, if any, is last.
ConnectivityPoint(samples, idx, bucketStart, bucketEnd, gapThreshold) ==
    LET next == SkipThrough(samples, idx, bucketEnd)
        bucketSamples == SubSeq(samples, idx, next - 1)
        haveLast == next > 1
        last == IF haveLast THEN samples[next - 1] ELSE ConnectivityStatus(FALSE, "", ZeroTime)
        class == IF Len(bucketSamples) > 0
                 THEN ConnectivityClass(bucketSamples[Len(bucketSamples)])
                 ELSE IF haveLast /\ bucketStart - last.CheckedAt <= gapThreshold
                 THEN ConnectivityClass(last)
                 ELSE [ClassName |-> "state-missing", Label |-> "No data"]
        details == IF Len(bucketSamples) > 0
                   THEN [k \in 1 .. Min(Len(bucketSamples), MaxDetailsPerPoint) |->
                            ConnectivityDetail(bucketSamples[k])]
                   ELSE IF haveLast /\ bucketStart - last.CheckedAt <= gapThreshold
                   THEN <<[ConnectivityDetail(last) EXCEPT !.Timestamp = bucketStart]>>
                   ELSE <<>>
    IN  [point |-> TimelinePoint(class.ClassName, class.Label, bucketStart, bucketEnd,
                                 IF Len(details) > 0 /\ class.ClassName # "state-missing"
                                 THEN details ELSE <<>>),
         idx |-> next]

RECURSIVE ConnectivityLoop(_, _, _, _, _, _, _)
ConnectivityLoop(samples, start, end, points, gapThreshold, i, idx) ==
    IF i >= points THEN <<>>
    ELSE LET width == BucketDuration(start, end, points)
             bucketStart == start + i * width
             bucketEnd == IF i = points - 1 THEN end ELSE bucketStart + width
             got == ConnectivityPoint(samples, idx, bucketStart, bucketEnd, gapThreshold)
         IN  <<got.point>>
             \o ConnectivityLoop(samples, start, end, points, gapThreshold, i + 1, got.idx)

BuildConnectivityTimeline(entries, start, end0, points0) ==
    LET points == IF points0 <= 0 THEN DefaultTimelinePoints ELSE points0
        end == IF ~(end0 > start) THEN start + TimelineMinute ELSE end0
        samples == SortStatuses(SelectSeq(entries, LAMBDA e : e.CheckedAt # ZeroTime))
    IN  ConnectivityLoop(samples, start, end, points, DeriveConnectivityGap(samples), 0,
                         SkipStatusBefore(samples, 1, start))

\* the probes of the model: when they ran, and what they found
ConnTimes == {0, 1, 3, 7, 12}
ConnStart == 2
ConnEnds == {2, 8, 14}

ConnInit ==
    /\ cEntries = <<>>
    /\ cStart = ConnStart
    /\ cEnd \in ConnEnds
    /\ cPoints \in 1 .. MaxPoints
    /\ cOut = NoTimeline

ConnIdle ==
    /\ cEntries = <<>> /\ cStart = 0 /\ cEnd = 0 /\ cPoints = 0 /\ cOut = NoTimeline

\* one more probe result is in the entries, in any order; no two probes ran
\* at the same instant, and a result may lack its time
CObserve ==
    /\ Len(cEntries) < MaxConn
    /\ \E ts \in (ConnTimes \cup {ZeroTime}) \ {cEntries[i].CheckedAt : i \in DOMAIN cEntries},
          k \in {<<TRUE, "">>, <<FALSE, "timeout">>, <<FALSE, "">>} :
          cEntries' = Append(cEntries, ConnectivityStatus(k[1], k[2], ts))
    /\ cOut' = NoTimeline
    /\ UNCHANGED <<cStart, cEnd, cPoints>>

\* one more probe that succeeded is in the entries, in any order; the times
\* are seconds, minutes and hours apart
MaxProbes == 4
ProbeTimes == {0, 1, 3, 7, 12, 600}

CObserveProbe ==
    /\ Len(cEntries) < MaxProbes
    /\ \E ts \in ProbeTimes \ {cEntries[i].CheckedAt : i \in DOMAIN cEntries} :
          cEntries' = Append(cEntries, ConnectivityStatus(TRUE, "", ts))
    /\ cOut' = NoTimeline
    /\ UNCHANGED <<cStart, cEnd, cPoints>>

\* BuildConnectivityTimeline is called and returns
CBuild ==
    /\ ~cOut.done
    /\ cOut' = [done |-> TRUE,
                points |-> BuildConnectivityTimeline(cEntries, cStart, cEnd, cPoints)]
    /\ UNCHANGED <<cEntries, cStart, cEnd, cPoints>>

(***************************************************************************)
(* storage.StatusStorage: the readers.  A returned slice is new memory     *)
(* holding copies of the entry structs; the Checks field of a copied       *)
(* struct is the slice header of the stored one, so it names the backing   *)
(* array of the stored entry.  refs[k] is the position in s.history of the *)
(* entry whose Checks array the k-th returned entry shares, 0 for none.    *)
(***************************************************************************)
NoRead ==
    [op |-> "none", arg |-> 0, value |-> <<>>, ok |-> FALSE, refs |-> <<>>,
     before |-> <<>>, after |-> <<>>, changed |-> FALSE]

\* what the four reads return of the series h
ReadValue(op, arg, h) ==
    IF op = "Latest" THEN <<Latest(h).entry>>
    ELSE IF op = "History" THEN History(h)
    ELSE IF op = "HistorySince" THEN HistorySince(h, arg)
    ELSE HistoryN(h, arg)

ReadOk(op, h) == IF op = "Latest" THEN Latest(h).ok ELSE TRUE

\* return s.history[len-1] and copy(copied, s.history[idx:]) copy structs
ReadRefs(op, arg, h) ==
    IF op = "Latest" /\ ~Latest(h).ok THEN <<0>>
    ELSE LET n == Len(ReadValue(op, arg, h))
         IN  [k \in 1 .. n |-> Len(h) - n + k]

ReadOps ==
    {<<"Latest", 0>>, <<"History", 0>>}
        \cup {<<"HistorySince", c>> : c \in 0 .. MaxTime}
        \cup {<<"HistoryN", n>> : n \in 0 .. MaxHistory}

\* the series before the Append that is running or has run last, and after it
SeriesBefore == preHistory

SeriesAfter == IF apc \in {"locked", "writing"} THEN Append(preHistory, pending) ELSE history

\* a reader that takes no lock
ReadAllowed_NoLock == TRUE

\* s.mu.RLock() returns: no Append holds s.mu
ReadAllowed == apc = "idle"

\* a read from RLock to RUnlock; the caller has the value
Read ==
    /\ proc = "up" /\ ReadAllowed
    /\ \E o \in ReadOps :
          ret' = [op |-> o[1], arg |-> o[2],
                  value |-> ReadValue(o[1], o[2], history),
                  ok |-> ReadOk(o[1], history),
                  refs |-> ReadRefs(o[1], o[2], history),
                  before |-> SeriesBefore, after |-> SeriesAfter,
                  changed |-> FALSE]
    /\ UNCHANGED <<storeVars, pending, now>>

\* the same when no earlier result is still on its way to its caller
ReadCall == ret.op = "none" /\ Read

\* the caller takes the result
ReadReturn ==
    /\ ret.op # "none"
    /\ ret' = NoRead
    /\ UNCHANGED <<storeVars, pending, now>>

\* what a caller may put in place of a check it was given
OtherChecks(c) == {Passing(c.ID), Failing(c.ID)} \ {c}

\* the caller assigns res[i].Checks[j]: the array is the stored entry's
CallerWriteCheck ==
    /\ ret.op # "none" /\ ~ret.changed
    /\ \E i \in DOMAIN ret.value :
        \E j \in DOMAIN ret.value[i].Checks :
          \E c \in OtherChecks(ret.value[i].Checks[j]) :
            /\ ret' = [ret EXCEPT !.value[i].Checks[j] = c, !.changed = TRUE]
            /\ history' = IF ret.refs[i] = 0 THEN history
                          ELSE [history EXCEPT ![ret.refs[i]].Checks[j] = c]
    /\ UNCHANGED <<proc, version, file, tmp, apc, lastErr, preHistory, persisted,
                   pending, now>>

\* the caller assigns res[i].Checks a slice of its own
CallerSetChecks ==
    /\ ret.op # "none" /\ ~ret.changed
    /\ \E i \in DOMAIN ret.value :
          ret' = [ret EXCEPT !.value[i].Checks = <<>>, !.refs[i] = 0, !.changed = TRUE]
    /\ UNCHANGED <<storeVars, pending, now>>

\* the caller assigns res[i].Timestamp
CallerSetTimestamp ==
    /\ ret.op # "none" /\ ~ret.changed
    /\ \E i \in DOMAIN ret.value :
          ret' = [ret EXCEPT !.value[i].Timestamp = ZeroTime, !.changed = TRUE]
    /\ ret' # ret
    /\ UNCHANGED <<storeVars, pending, now>>

\* a polling round while no caller is between a read and its use of the value
AppendRound ==
    /\ Len(history) < MaxHistory /\ RoundDue
    /\ AppendPersisted
    /\ UNCHANGED <<readVars, now>>

\* Append: s.mu.Lock() returns; the entry is the round of this instant
AppendLock ==
    /\ proc = "up" /\ apc = "idle"
    /\ Len(history) < MaxHistory
    /\ \E checks \in Rounds : pending' = StatusEntry(now, checks)
    /\ preHistory' = history
    /\ apc' = "locked"
    /\ UNCHANGED <<proc, history, version, file, tmp, lastErr, persisted, ret, now>>

\* s.history = append(s.history, entry), under way: the words of the entry
\* are stored one after the other, the Checks after the Timestamp
AppendWriting ==
    /\ proc = "up" /\ apc = "locked"
    /\ history' = Append(history, [Timestamp |-> pending.Timestamp, Checks |-> <<>>])
    /\ apc' = "writing"
    /\ UNCHANGED <<proc, version, file, tmp, lastErr, preHistory, persisted, readVars, now>>

\* s.history = append(s.history, entry), complete; s.version++
AppendStored ==
    /\ proc = "up" /\ apc = "writing"
    /\ history' = [history EXCEPT ![Len(history)] = pending]
    /\ version' = version + 1
    /\ apc' = "persist"
    /\ UNCHANGED <<proc, file, tmp, lastErr, preHistory, persisted, readVars, now>>

ReadIdle == ret = NoRead /\ pending = NoEntry

(***************************************************************************)
(* monitor.Monitor: Start, Stop, RunOnce and the loop of run.  The Append  *)
(* of a round is the store's, step by step.                                *)
(***************************************************************************)
\* Start: go m.run(); run begins with a round
MStart ==
    /\ mpc = "new"
    /\ mpc' = "round"
    /\ UNCHANGED <<mStopped, mTick, mErr>>

\* Stop: close(m.stopCh)
MStop ==
    /\ ~mStopped
    /\ mStopped' = TRUE
    /\ UNCHANGED <<mpc, mTick, mErr>>

\* the period of the ticker elapses: the tick is kept if ticker.C has room
MTimerFire ==
    /\ mpc \in {"round", "append", "select"}
    /\ ~mTick
    /\ mTick' = TRUE
    /\ UNCHANGED <<mpc, mStopped, mErr>>

\* RunOnce: the checks have run and m.storage.Append(entry) is entered
MRoundAppend ==
    /\ mpc = "round"
    /\ AppendBegin
    /\ mpc' = "append"
    /\ UNCHANGED <<mStopped, mTick, mErr>>

\* a loop that gives up when a round returns an error
MRoundReturn_ExitOnError ==
    /\ mpc = "append" /\ apc = "idle"
    /\ mErr' = lastErr
    /\ mpc' = IF lastErr # NoError THEN "exit" ELSE "select"
    /\ UNCHANGED <<mStopped, mTick>>

\* RunOnce returns what Append returned; run logs an error and goes to its select
MRoundReturn ==
    /\ mpc = "append" /\ apc = "idle"
    /\ mErr' = lastErr
    /\ mpc' = "select"
    /\ UNCHANGED <<mStopped, mTick>>

\* select takes the case <-ticker.C
MSelectTick ==
    /\ mpc = "select"
    /\ mTick
    /\ Len(history) < MaxHistory
    /\ mTick' = FALSE
    /\ mpc' = "round"
    /\ UNCHANGED <<mStopped, mErr>>

\* select takes the case <-m.stopCh: run returns and closes doneCh
MSelectStop ==
    /\ mpc = "select"
    /\ mStopped
    /\ mpc' = "exit"
    /\ UNCHANGED <<mStopped, mTick, mErr>>

MonIdle == mpc = "new" /\ mStopped = FALSE /\ mTick = FALSE /\ mErr = NoError

(***************************************************************************)
(* server.serveOverviewConnection: the push loop of one live-view          *)
(* connection, its ticker and its reader goroutine.  A write fails at any  *)
(* time (the deadline passes, the peer is gone) or succeeds; a read fails  *)
(* once the client is gone or the connection is closed.                    *)
(***************************************************************************)
\* return before the loop: the deferred conn.Close() runs
PushReturnEarly ==
    /\ wpc' = "returned"
    /\ wConn' = "closed"

\* a return from the loop that leaves the connection open
PushReturn_NoClose ==
    /\ wpc' = "returned"
    /\ wTicker' = "stopped"
    /\ wConn' = wConn

\* return from the loop: the deferred ticker.Stop() and conn.Close() run
PushReturn ==
    /\ wpc' = "returned"
    /\ wTicker' = "stopped"
    /\ wConn' = "closed"

\* the first payload is written; the ticker is made and the reader started
WFirstWriteOk ==
    /\ wpc = "first"
    /\ wSent' = wSent + 1
    /\ wTicker' = "running"
    /\ wReader' = "running"
    /\ wpc' = "loop"
    /\ UNCHANGED <<wConn, wClient, wTick, wRead>>

\* the first write fails
WFirstWriteFail ==
    /\ wpc = "first"
    /\ PushReturnEarly
    /\ UNCHANGED <<wReader, wTicker, wClient, wTick, wSent, wRead>>

\* the client disconnects
WClientGone ==
    /\ wClient = "connected"
    /\ wClient' = "gone"
    /\ UNCHANGED <<wpc, wReader, wTicker, wConn, wTick, wSent, wRead>>

\* the reader: conn.ReadMessage() returns a message, which is dropped
WReaderRead ==
    /\ wReader = "running"
    /\ wClient = "connected" /\ wConn = "open"
    /\ wRead < MaxMessages
    /\ wRead' = wRead + 1
    /\ UNCHANGED <<wpc, wReader, wTicker, wConn, wClient, wTick, wSent>>

\* the reader: conn.ReadMessage() returns an error; the goroutine returns
\* and its deferred close(done) runs
WReaderExit ==
    /\ wReader = "running"
    /\ wClient = "gone" \/ wConn = "closed"
    /\ wReader' = "exited"
    /\ UNCHANGED <<wpc, wTicker, wConn, wClient, wTick, wSent, wRead>>

\* the push interval elapses: the tick is kept if ticker.C has room
WTimerFire ==
    /\ wTicker = "running"
    /\ ~wTick
    /\ wTick' = TRUE
    /\ UNCHANGED <<wpc, wReader, wTicker, wConn, wClient, wSent, wRead>>

\* select takes <-ticker.C and the payload is written
WSelectTickOk ==
    /\ wpc = "loop"
    /\ wTick
    /\ wSent < MaxPushes
    /\ wTick' = FALSE
    /\ wSent' = wSent + 1
    /\ UNCHANGED <<wpc, wReader, wTicker, wConn, wClient, wRead>>

\* select takes <-ticker.C and the write fails
WSelectTickFail ==
    /\ wpc = "loop"
    /\ wTick
    /\ wTick' = FALSE
    /\ PushReturn
    /\ UNCHANGED <<wReader, wClient, wSent, wRead>>

\* select takes <-done
WSelectDone ==
    /\ wpc = "loop"
    /\ wReader = "exited"
    /\ PushReturn
    /\ UNCHANGED <<wReader, wClient, wTick, wSent, wRead>>

PushIdle ==
    /\ wpc = "first" /\ wReader = "none" /\ wTicker = "none" /\ wConn = "open"
    /\ wClient = "connected" /\ wTick = FALSE /\ wSent = 0 /\ wRead = 0

(***************************************************************************)
(* server: the overview.  pickServicesRoundRobin takes the entries of the  *)
(* node groups in turns.  An entry is known by its id, the pair of its     *)
(* node and its service.                                                   *)
(***************************************************************************)
MaxGroups == 3
MaxServices == 2
MaxLimit == 4

NoPick == [done |-> FALSE, entries |-> <<>>]

overviewServiceEntry(node, service) == [id |-> <<node, service>>]

overviewNodeGroup(node, services) ==
    [nodeID |-> node,
     services |-> [k \in DOMAIN services |-> overviewServiceEntry(node, services[k])]]

RECURSIVE GroupsTotal(_)
GroupsTotal(groups) ==
    IF groups = <<>> THEN 0
    ELSE Len(Head(groups).services) + GroupsTotal(Tail(groups))

\* the inner loop from group i on; indexes count from 0 as in the code
RECURSIVE PickPass(_, _, _, _, _, _)
PickPass(groups, limit, i, result, indexes, progressed) ==
    IF i > Len(groups)
    THEN [result |-> result, indexes |-> indexes, progressed |-> progressed]
    ELSE IF indexes[i] >= Len(groups[i].services)
    THEN PickPass(groups, limit, i + 1, result, indexes, progressed)
    ELSE LET r == Append(result, groups[i].services[indexes[i] + 1])
             ix == [indexes EXCEPT ![i] = @ + 1]
         IN  IF Len(r) >= limit
             THEN [result |-> r, indexes |-> ix, progressed |-> TRUE]
             ELSE PickPass(groups, limit, i + 1, r, ix, TRUE)

\* the outer loop
RECURSIVE PickLoop(_, _, _, _)
PickLoop(groups, limit, result, indexes) ==
    IF Len(result) >= limit THEN result
    ELSE LET pass == PickPass(groups, limit, 1, result, indexes, FALSE)
         IN  IF ~pass.progressed THEN pass.result
             ELSE PickLoop(groups, limit, pass.result, pass.indexes)

RECURSIVE Concat(_)
Concat(groups) ==
    IF groups = <<>> THEN <<>>
    ELSE Head(groups).services \o Concat(Tail(groups))

\* a pick that empties each group before it visits the next
pickServicesInOrder(groups, limit) ==
    LET total == GroupsTotal(groups)
        lim == IF limit <= 0 \/ limit > total THEN total ELSE limit
    IN  SubSeq(Concat(groups), 1, lim)

pickServicesRoundRobin(groups, limit) ==
    LET total == GroupsTotal(groups)
        lim == IF limit <= 0 \/ limit > total THEN total ELSE limit
    IN  IF total = 0 THEN <<>>
        ELSE PickLoop(groups, lim, <<>>, [i \in 1 .. Len(groups) |-> 0])

\* the orders a group's services can have: buildServiceGroups keeps the
\* services of a node that have a timeline, each once, and no empty group
ServiceOrders ==
    {s \in UNION {[1 .. n -> 1 .. MaxServices] : n \in 1 .. MaxServices} :
        \A i, j \in DOMAIN s : i # j => s[i] # s[j]}

\* one more node group is among the arguments
KObserveGroup ==
    /\ ~kResult.done
    /\ Len(kGroups) < MaxGroups
    /\ \E services \in ServiceOrders :
          kGroups' = Append(kGroups, overviewNodeGroup(Len(kGroups) + 1, services))
    /\ UNCHANGED <<kLimit, kResult>>

\* overviewServiceItems calls pickServicesRoundRobin with the groups it has
KPick ==
    /\ ~kResult.done
    /\ Len(kGroups) >= 1
    /\ \E limit \in -1 .. MaxLimit :
          /\ kLimit' = limit
          /\ kResult' = [done |-> TRUE, entries |-> pickServicesRoundRobin(kGroups, limit)]
    /\ UNCHANGED kGroups

PickIdle == kGroups = <<>> /\ kLimit = 0 /\ kResult = NoPick

(***************************************************************************)
(* server: buildServiceGroups.  Strings are compared as Go compares them,  *)
(* byte by byte: StrOrder lists the trimmed strings of the model in that   *)
(* order (upper case before lower case, a prefix before its extensions).   *)
(***************************************************************************)
StrOrder == <<"Alpha", "Beta", "Local", "a", "alpha", "b", "beta", "local", "p1", "p2">>

StrRank(s) == CHOOSE k \in DOMAIN StrOrder : StrOrder[k] = s

StrLess(a, b) == StrRank(a) < StrRank(b)

\* strings.TrimSpace on the names of the model
TrimSpace(s) ==
    CASE s = " beta" -> "beta"
      [] s = " State-Error" -> "State-Error"
      [] OTHER -> s

\* strings.EqualFold
EqualFold(a, b) == ToLower(a) = ToLower(b)

\* cluster.ServiceTimeline
ServiceTimeline(id, name, timeline) ==
    [ServiceID |-> id, ServiceName |-> name, Timeline |-> timeline]

\* a cluster.PeerSnapshot as the overview reads it
NodeView(id, name, source, targets, timelines) ==
    [Node |-> [ID |-> id, Name |-> name], Source |-> source,
     Targets |-> targets, ServiceTimelines |-> timelines]

NoGroups == [done |-> FALSE, groups |-> <<>>]

\* buildTargetOrder: the index of each id; a later target of the same id
\* overwrites an earlier one
RECURSIVE buildTargetOrder(_)
buildTargetOrder(targets) ==
    IF Len(targets) = 0 THEN <<>>
    ELSE LET front == buildTargetOrder(SubSeq(targets, 1, Len(targets) - 1))
             last == targets[Len(targets)]
         IN  IF last.ID = "" THEN front
             ELSE (last.ID :> (Len(targets) - 1)) @@ front

fallbackName(node) ==
    IF TrimSpace(node.Name) # "" THEN TrimSpace(node.Name) ELSE TrimSpace(node.ID)

isLocalPeer(peer) ==
    IF EqualFold(peer.Source, "local") THEN TRUE
    ELSE IF peer.Node.ID # "" /\ LocalNode.ID # ""
         THEN EqualFold(peer.Node.ID, LocalNode.ID)
         ELSE FALSE

\* a comparison of the services by their names alone
ServiceLess_ByName(a, b) ==
    IF ToLower(a.name) = ToLower(b.name) THEN StrLess(a.id[2], b.id[2])
    ELSE StrLess(ToLower(a.name), ToLower(b.name))

\* the comparison of the services of one group
ServiceLess(a, b) ==
    IF a.hasOrder /\ b.hasOrder /\ a.order # b.order THEN a.order < b.order
    ELSE IF a.hasOrder /\ ~b.hasOrder THEN TRUE
    ELSE IF ~a.hasOrder /\ b.hasOrder THEN FALSE
    ELSE IF ToLower(a.name) = ToLower(b.name) THEN StrLess(a.id[2], b.id[2])
    ELSE StrLess(ToLower(a.name), ToLower(b.name))

\* a comparison of the groups that does not fold the case of the names
GroupLess_CaseSensitive(a, b) ==
    IF a.isLocal = b.isLocal
    THEN IF a.nodeName = b.nodeName THEN StrLess(a.nodeID, b.nodeID)
         ELSE StrLess(a.nodeName, b.nodeName)
    ELSE a.isLocal

\* the comparison of the groups
GroupLess(a, b) ==
    IF a.isLocal = b.isLocal
    THEN IF ToLower(a.nodeName) = ToLower(b.nodeName) THEN StrLess(a.nodeID, b.nodeID)
         ELSE StrLess(ToLower(a.nodeName), ToLower(b.nodeName))
    ELSE a.isLocal

\* sort.SliceStable of the services: an element moves in front of the ones
\* it is less than and stays behind the others
RECURSIVE InsertService(_, _)
InsertService(sorted, e) ==
    IF Len(sorted) = 0 THEN <<e>>
    ELSE IF ServiceLess(e, sorted[Len(sorted)])
         THEN Append(InsertService(SubSeq(sorted, 1, Len(sorted) - 1), e),
                     sorted[Len(sorted)])
         ELSE Append(sorted, e)

RECURSIVE SortServices(_)
SortServices(services) ==
    IF Len(services) = 0 THEN <<>>
    ELSE InsertService(SortServices(SubSeq(services, 1, Len(services) - 1)),
                       services[Len(services)])

\* sort.SliceStable of the groups
RECURSIVE InsertGroup(_, _)
InsertGroup(sorted, g) ==
    IF Len(sorted) = 0 THEN <<g>>
    ELSE IF GroupLess(g, sorted[Len(sorted)])
         THEN Append(InsertGroup(SubSeq(sorted, 1, Len(sorted) - 1), g),
                     sorted[Len(sorted)])
         ELSE Append(sorted, g)

RECURSIVE SortGroups(_)
SortGroups(groups) ==
    IF Len(groups) = 0 THEN <<>>
    ELSE InsertGroup(SortGroups(SubSeq(groups, 1, Len(groups) - 1)),
                     groups[Len(groups)])

\* the entries of one node, unsorted: a service without timeline points is
\* left out; the display name carries the node's name when there are
\* several nodes, which is the same for all entries of the group
RECURSIVE GroupEntries(_, _, _)
GroupEntries(nodeID, timelines, order) ==
    IF Len(timelines) = 0 THEN <<>>
    ELSE LET timeline == Head(timelines)
             rest == GroupEntries(nodeID, Tail(timelines), order)
             serviceName == IF TrimSpace(timeline.ServiceName) # ""
                            THEN TrimSpace(timeline.ServiceName)
                            ELSE TrimSpace(timeline.ServiceID)
             hasOrder == timeline.ServiceID \in DOMAIN order
             entry == [id |-> <<nodeID, timeline.ServiceID>>,
                       name |-> serviceName,
                       timeline |-> timeline.Timeline,
                       order |-> IF hasOrder THEN order[timeline.ServiceID] ELSE 0,
                       hasOrder |-> hasOrder]
         IN  IF Len(timeline.Timeline) = 0 THEN rest ELSE <<entry>> \o rest

\* the group of one node
NodeGroup(nodeSnap) ==
    LET isLocal == isLocalPeer(nodeSnap)
        order == IF isLocal THEN buildTargetOrder(LocalTargets)
                 ELSE buildTargetOrder(nodeSnap.Targets)
        nodeID == TrimSpace(nodeSnap.Node.ID)
    IN  [nodeID |-> nodeID,
         nodeName |-> fallbackName(nodeSnap.Node),
         isLocal |-> isLocal,
         services |-> SortServices(GroupEntries(nodeID, nodeSnap.ServiceTimelines, order))]

RECURSIVE NodeGroups(_)
NodeGroups(nodes) ==
    IF Len(nodes) = 0 THEN <<>>
    ELSE LET group == NodeGroup(Head(nodes))
         IN  IF Len(group.services) > 0 THEN <<group>> \o NodeGroups(Tail(nodes))
             ELSE NodeGroups(Tail(nodes))

buildServiceGroups(snapshot) ==
    IF Len(snapshot.Nodes) = 0 THEN <<>>
    ELSE SortGroups(NodeGroups(snapshot.Nodes))

\* what a node reports of its services: none; one without points; one the
\* target list does not name before one it names; two in the reverse of
\* the target list; two without a target list whose names differ in case,
\* in the reverse of their order in lower case; two whose names are the
\* same in lower case, in the reverse of their ids
PointsOfService == <<"state-success">>

ServiceViews ==
    { [Targets |-> <<>>, ServiceTimelines |-> <<>>],
      [Targets |-> <<Target("a", "Alpha")>>,
       ServiceTimelines |-> <<ServiceTimeline("a", "Alpha", <<>>)>>],
      [Targets |-> <<Target("a", "Alpha")>>,
       ServiceTimelines |-> <<ServiceTimeline("b", "Beta", PointsOfService),
                              ServiceTimeline("a", "Alpha", PointsOfService)>>],
      [Targets |-> <<Target("b", "Beta"), Target("a", "Alpha")>>,
       ServiceTimelines |-> <<ServiceTimeline("a", "", PointsOfService),
                              ServiceTimeline("b", "Beta", PointsOfService)>>],
      [Targets |-> <<>>,
       ServiceTimelines |-> <<ServiceTimeline("a", "Beta", PointsOfService),
                              ServiceTimeline("b", "alpha", PointsOfService)>>],
      [Targets |-> <<>>,
       ServiceTimelines |-> <<ServiceTimeline("b", "Alpha", PointsOfService),
                              ServiceTimeline("a", "alpha", PointsOfService)>>] }

PeerNames == {"", "Beta", "alpha", " beta"}

PeerIds == {"p1", "p2"}

\* the nodes a snapshot can hold next: the local node as Snapshot builds
\* it, or a peer under its id, each at most once
NextNodes ==
    LET have == {gNodes[i].Node.ID : i \in DOMAIN gNodes}
    IN  {NodeView(LocalNode.ID, LocalNode.Name, "local", v.Targets, v.ServiceTimelines) :
            v \in IF LocalNode.ID \in have THEN {} ELSE ServiceViews}
        \cup
        {NodeView(x[1], x[2], "peer", x[3].Targets, x[3].ServiceTimelines) :
            x \in (PeerIds \ have) \X PeerNames \X ServiceViews}

\* one more node is in the snapshot, at any place of its Nodes
GObserveNode ==
    /\ ~gResult.done
    /\ \E node \in NextNodes : gNodes' = Append(gNodes, node)
    /\ UNCHANGED gResult

\* overviewServiceItems calls buildServiceGroups with the snapshot
GBuild ==
    /\ ~gResult.done
    /\ gResult' = [done |-> TRUE, groups |-> buildServiceGroups([Nodes |-> gNodes])]
    /\ UNCHANGED gNodes

GroupsIdle == gNodes = <<>> /\ gResult = NoGroups

(***************************************************************************)
(* server: mapTimelineToBuckets.  Times count in units of five minutes, so *)
(* that a bucket of the overview is two units long.                        *)
(***************************************************************************)
overviewBucketCount == 3
OverviewBucketUnits == 2
MaxOverviewPoints == 2

overviewStateUnknown == "unknown"
overviewStateOK == "ok"
overviewStateIssue == "issue"

NoBuckets == [done |-> FALSE, buckets |-> <<>>]

IsZero(t) == t = ZeroTime

timeBucket(start, end) == [Start |-> start, End |-> end]

RECURSIVE buildTimeBuckets(_, _, _)
buildTimeBuckets(start, duration, count) ==
    IF count <= 0 THEN <<>>
    ELSE <<timeBucket(start, start + duration)>>
             \o buildTimeBuckets(start + duration, duration, count - 1)

newOverviewBuckets(buckets) ==
    [i \in DOMAIN buckets |->
        [Start |-> buckets[i].Start, End |-> buckets[i].End,
         State |-> overviewStateUnknown, Detail |-> ""]]

bucketOverlaps(bucket, start, end) ==
    LET e == IF end < start THEN start ELSE end
    IN  IF IsZero(start) /\ IsZero(end) THEN FALSE
        ELSE IF bucket.End < bucket.Start THEN FALSE
        ELSE IF e <= bucket.Start THEN FALSE
        ELSE IF start >= bucket.End THEN FALSE
        ELSE TRUE

timelineState(className) ==
    LET c == ToLower(TrimSpace(className))
    IN  IF c = "state-success" THEN overviewStateOK
        ELSE IF c = "state-error" \/ c = "state-warning" THEN overviewStateIssue
        ELSE overviewStateUnknown

timelineDetail(point) ==
    LET detail == IF Len(point.Details) > 0
                  THEN IF TrimSpace(point.Details[1].Error) # ""
                       THEN TrimSpace(point.Details[1].Error)
                       ELSE TrimSpace(point.Details[1].State)
                  ELSE ""
    IN  IF detail # "" THEN detail ELSE TrimSpace(point.Label)

RECURSIVE BucketScan(_, _, _, _, _)

\* a scan in which the first point with a state decides
BucketScan_FirstWins(bucket, points, k, state, detail) ==
    IF k > Len(points) THEN [State |-> state, Detail |-> detail]
    ELSE IF ~bucketOverlaps(bucket, points[k].Start, points[k].End)
    THEN BucketScan(bucket, points, k + 1, state, detail)
    ELSE LET pointState == timelineState(points[k].ClassName)
         IN  IF pointState # overviewStateUnknown
             THEN [State |-> pointState, Detail |-> timelineDetail(points[k])]
             ELSE BucketScan(bucket, points, k + 1, state, detail)

\* the loop over the points for one bucket, from point k on
BucketScan(bucket, points, k, state, detail) ==
    IF k > Len(points) THEN [State |-> state, Detail |-> detail]
    ELSE IF ~bucketOverlaps(bucket, points[k].Start, points[k].End)
    THEN BucketScan(bucket, points, k + 1, state, detail)
    ELSE LET pointState == timelineState(points[k].ClassName)
         IN  IF pointState = overviewStateIssue
             THEN [State |-> overviewStateIssue, Detail |-> timelineDetail(points[k])]
             ELSE IF pointState = overviewStateOK /\ state # overviewStateOK
             THEN BucketScan(bucket, points, k + 1, overviewStateOK,
                             timelineDetail(points[k]))
             ELSE BucketScan(bucket, points, k + 1, state, detail)

mapTimelineToBuckets(points, buckets) ==
    LET result == newOverviewBuckets(buckets)
    IN  IF Len(points) = 0 THEN result
        ELSE [i \in DOMAIN buckets |->
                LET scan == BucketScan(buckets[i], points, 1, overviewStateUnknown, "")
                IN  [result[i] EXCEPT !.State = scan.State,
                                      !.Detail = IF scan.Detail # "" THEN scan.Detail
                                                 ELSE @]]

\* the spans of the points: before the first bucket and touching it; an
\* instant inside a bucket; an end before the start; across a boundary;
\* exactly one bucket; the whole range; no times at all
PointSpans ==
    {<<0, 1>>, <<2, 2>>, <<2, 1>>, <<2, 4>>, <<3, 5>>, <<0, 7>>, <<ZeroTime, ZeroTime>>}

PointClasses ==
    {"state-success", "state-warning", "state-error", "state-missing", " State-Error"}

\* one more point is in the timeline of the service
OObservePoint ==
    /\ ~oResult.done
    /\ Len(oPoints) < MaxOverviewPoints
    /\ \E span \in PointSpans, className \in PointClasses :
          oPoints' = Append(oPoints, TimelinePoint(className, "12:00", span[1], span[2], <<>>))
    /\ UNCHANGED <<oBuckets, oResult>>

\* buildOverviewSnapshot makes the buckets of the last half hour and
\* overviewServiceItems maps the timeline of an entry to them
OMap ==
    /\ ~oResult.done
    /\ \E rangeStart \in {0, 1} :
          /\ oBuckets' = buildTimeBuckets(rangeStart, OverviewBucketUnits,
                                          overviewBucketCount)
          /\ oResult' = [done |-> TRUE,
                         buckets |-> mapTimelineToBuckets(oPoints, oBuckets')]
    /\ UNCHANGED oPoints

MapIdle == oPoints = <<>> /\ oBuckets = <<>> /\ oResult = NoBuckets

(***************************************************************************)
(* history: BuildServiceTimelines.  The checks of the model carry no error *)
(* text, so valueOrEmpty gives "" for each of them.  The names of the      *)
(* model differ in lower case, so the order sort.Slice leaves is the one   *)
(* order there is.                                                         *)
(***************************************************************************)
\* registerName: the first name given for an id stays, an empty name is the id
registerName(nameMap, id, name) ==
    IF id = "" THEN nameMap
    ELSE LET n == IF name = "" THEN id ELSE name
         IN  IF id \notin DOMAIN nameMap THEN (id :> n) @@ nameMap
             ELSE IF nameMap[id] = "" THEN [nameMap EXCEPT ![id] = n]
             ELSE nameMap

RECURSIVE RegisterTargets(_, _, _)
RegisterTargets(nameMap, targets, i) ==
    IF i > Len(targets) THEN nameMap
    ELSE RegisterTargets(registerName(nameMap, targets[i].ID, targets[i].Name),
                         targets, i + 1)

\* the names after the loop over the checks of the entries, and of latest
RECURSIVE RegisterChecks(_, _, _)
RegisterChecks(nameMap, checks, i) ==
    IF i > Len(checks) THEN nameMap
    ELSE RegisterChecks(registerName(nameMap, checks[i].ID, checks[i].Name),
                        checks, i + 1)

RECURSIVE RegisterEntries(_, _, _)
RegisterEntries(nameMap, entries, i) ==
    IF i > Len(entries) THEN nameMap
    ELSE RegisterEntries(RegisterChecks(nameMap, entries[i].Checks, 1), entries, i + 1)

\* historyMap[id]: the samples addSample appends for the id, in the order
\* of the entries
RECURSIVE SamplesOf(_, _, _)
SamplesOf(entries, id, i) ==
    IF i > Len(entries) \/ id = "" THEN <<>>
    ELSE LET checks == SelectSeq(entries[i].Checks, LAMBDA c : c.ID = id)
         IN  [k \in DOMAIN checks |->
                 Sample(entries[i].Timestamp, checks[k].OK, checks[k].State, "")]
             \o SamplesOf(entries, id, i + 1)

\* sort.Slice of the ids by the lower-cased names
RECURSIVE InsertId(_, _, _)
InsertId(sorted, id, nameMap) ==
    IF Len(sorted) = 0 THEN <<id>>
    ELSE IF StrLess(ToLower(nameMap[id]), ToLower(nameMap[sorted[Len(sorted)]]))
         THEN Append(InsertId(SubSeq(sorted, 1, Len(sorted) - 1), id, nameMap),
                     sorted[Len(sorted)])
         ELSE Append(sorted, id)

RECURSIVE SortIds(_, _)
SortIds(ids, nameMap) ==
    IF Len(ids) = 0 THEN <<>>
    ELSE InsertId(SortIds(SubSeq(ids, 1, Len(ids) - 1), nameMap), ids[Len(ids)], nameMap)

\* timelines without the buckets of a service that has no samples
BuildServiceTimelines_SkipEmpty(entries, latest, targets, start, end0, points0) ==
    LET nameMap == RegisterEntries(<<>>, entries, 1)
        ids == SortIds(SelectSeq(IdOrder, LAMBDA id : id \in DOMAIN nameMap), nameMap)
    IN  [k \in DOMAIN ids |->
            ServiceTimeline(ids[k], nameMap[ids[k]],
                            BuildTimeline(SamplesOf(entries, ids[k], 1), start, end0, points0))]

BuildServiceTimelines(entries, latest, targets, start, end0, points0) ==
    LET points == IF points0 <= 0 THEN DefaultTimelinePoints ELSE points0
        end == IF ~(end0 > start) THEN start + TimelineMinute ELSE end0
        named == RegisterEntries(RegisterTargets(<<>>, targets, 1), entries, 1)
        nameMap == IF latest.ok THEN RegisterChecks(named, latest.entry.Checks, 1)
                   ELSE named
        ids == SortIds(SelectSeq(IdOrder, LAMBDA id : id \in DOMAIN nameMap), nameMap)
    IN  IF DOMAIN nameMap = {} THEN <<>>
        ELSE [k \in DOMAIN ids |->
                ServiceTimeline(ids[k], nameMap[ids[k]],
                                BuildTimeline(SamplesOf(entries, ids[k], 1),
                                              start, end, points))]

\* a handler reads the store and builds the timelines of a node
VBuild ==
    /\ ~vOut.done
    /\ proc = "up" /\ ReadAllowed
    /\ \E targets \in {<<>>, <<Target("a", "Alpha")>>,
                       <<Target("b", "Beta"), Target("a", "Alpha")>>} :
          vOut' = [done |-> TRUE, targets |-> targets,
                   services |-> BuildServiceTimelines(history, Latest(history), targets,
                                                      tStart, tEnd, tPoints)]
    /\ UNCHANGED <<tSamples, tStart, tEnd, tPoints, tOut>>

(***************************************************************************)
(* The two reader/writer locks: Service.mu over the peer cache and         *)
(* StatusStorage.mu over the series.  Each goroutine is followed from one  *)
(* place where it takes or gives back a lock to the next, with the work it *)
(* does in between; the data is that of the models above.                  *)
(***************************************************************************)
\* a sync.RWMutex: its writer, "none" without one, and its readers
Unlocked == [w |-> "none", r |-> {}]

\* RLock returns: no writer holds the lock
RLockReady(mu) == mu.w = "none"

\* Lock returns: nobody holds the lock
LockReady(mu) == mu.w = "none" /\ mu.r = {}

Holds(mu, t) == mu.w = t \/ t \in mu.r

\* the refresh goroutine, a Snapshot call, a reader of the store, an Append
Goroutines == {"fetch", "snap", "read", "append"}

\* fetchPeer: the base URL is empty and fetchPeer returns an error, or the
\* status request of getJSON is sent; no lock is taken
XFetchRequest ==
    /\ xFetch = "idle"
    /\ xFetch' \in {"status", "failed"}
    /\ UNCHANGED <<xMu, xStoreMu, xSnap, xLeft, xRead, xApp, xCached>>

\* fetchPeer: the status request is answered or fails
XFetchStatus ==
    /\ xFetch = "status"
    /\ xFetch' \in {"history", "failed"}
    /\ UNCHANGED <<xMu, xStoreMu, xSnap, xLeft, xRead, xApp, xCached>>

\* fetchPeer: the history request is answered or fails
XFetchHistory ==
    /\ xFetch = "history"
    /\ xFetch' \in {"fetched", "failed"}
    /\ UNCHANGED <<xMu, xStoreMu, xSnap, xLeft, xRead, xApp, xCached>>

\* fetchPeer after deriveTargets, or fetchAllPeers after an error: s.mu.Lock()
XFetchLock ==
    /\ xFetch \in {"fetched", "failed"}
    /\ LockReady(xMu)
    /\ xMu' = [xMu EXCEPT !.w = "fetch"]
    /\ xFetch' = "write"
    /\ UNCHANGED <<xStoreMu, xSnap, xLeft, xRead, xApp, xCached>>

\* s.peersData[peer.ID] = ...; s.mu.Unlock(): the entry is new or replaces one
XFetchUnlock ==
    /\ xFetch = "write"
    /\ xMu' = [xMu EXCEPT !.w = "none"]
    /\ xCached' \in {xCached, Min(xCached + 1, Cardinality(EnabledIds))}
    /\ xFetch' = "idle"
    /\ UNCHANGED <<xStoreMu, xSnap, xLeft, xRead, xApp>>

\* Snapshot, localSnapshot: s.storage.HistorySince(start) takes the read lock
\* of the store and copies under it
XSnapCall ==
    /\ xSnap = "idle"
    /\ RLockReady(xStoreMu)
    /\ xStoreMu' = [xStoreMu EXCEPT !.r = @ \cup {"snap"}]
    /\ xSnap' = "since"
    /\ UNCHANGED <<xMu, xFetch, xLeft, xRead, xApp, xCached>>

\* HistorySince returns (deferred RUnlock): filterHistory runs on the copy
XSnapSince ==
    /\ xSnap = "since"
    /\ xStoreMu' = [xStoreMu EXCEPT !.r = @ \ {"snap"}]
    /\ xSnap' = "filter"
    /\ UNCHANGED <<xMu, xFetch, xLeft, xRead, xApp, xCached>>

\* s.storage.Latest() takes the read lock of the store
XSnapFilter ==
    /\ xSnap = "filter"
    /\ RLockReady(xStoreMu)
    /\ xStoreMu' = [xStoreMu EXCEPT !.r = @ \cup {"snap"}]
    /\ xSnap' = "latest"
    /\ UNCHANGED <<xMu, xFetch, xLeft, xRead, xApp, xCached>>

\* Latest returns (deferred RUnlock): ComputeServiceUptime runs for the local node
XSnapLatest ==
    /\ xSnap = "latest"
    /\ xStoreMu' = [xStoreMu EXCEPT !.r = @ \ {"snap"}]
    /\ xSnap' = "uptime"
    /\ UNCHANGED <<xMu, xFetch, xLeft, xRead, xApp, xCached>>

\* localSnapshot has returned: s.mu.RLock(), the range over s.peersData begins
XSnapRLock ==
    /\ xSnap = "uptime"
    /\ RLockReady(xMu)
    /\ xMu' = [xMu EXCEPT !.r = @ \cup {"snap"}]
    /\ xSnap' = "range"
    /\ xLeft' = xCached
    /\ UNCHANGED <<xStoreMu, xFetch, xRead, xApp, xCached>>

\* materialisePeerSnapshot of the next entry: filterHistory
XSnapPeerFilter ==
    /\ xSnap = "range"
    /\ xLeft > 0
    /\ xSnap' = "peer-filter"
    /\ UNCHANGED <<xMu, xStoreMu, xFetch, xLeft, xRead, xApp, xCached>>

\* materialisePeerSnapshot: ComputeServiceUptime
XSnapPeerUptime ==
    /\ xSnap = "peer-filter"
    /\ xSnap' = "peer-uptime"
    /\ UNCHANGED <<xMu, xStoreMu, xFetch, xLeft, xRead, xApp, xCached>>

\* materialisePeerSnapshot returns, the entry is appended to nodes
XSnapPeerDone ==
    /\ xSnap = "peer-uptime"
    /\ xSnap' = "range"
    /\ xLeft' = xLeft - 1
    /\ UNCHANGED <<xMu, xStoreMu, xFetch, xRead, xApp, xCached>>

\* the range is over: s.mu.RUnlock()
XSnapRUnlock ==
    /\ xSnap = "range"
    /\ xLeft = 0
    /\ xMu' = [xMu EXCEPT !.r = @ \ {"snap"}]
    /\ xSnap' = "done"
    /\ UNCHANGED <<xStoreMu, xFetch, xLeft, xRead, xApp, xCached>>

\* Snapshot returns the ClusterSnapshot
XSnapReturn ==
    /\ xSnap = "done"
    /\ xSnap' = "idle"
    /\ UNCHANGED <<xMu, xStoreMu, xFetch, xLeft, xRead, xApp, xCached>>

\* History, HistorySince or HistoryN of another caller: s.mu.RLock(), then
\* make and copy
XReadRLock ==
    /\ xRead = "idle"
    /\ RLockReady(xStoreMu)
    /\ xStoreMu' = [xStoreMu EXCEPT !.r = @ \cup {"read"}]
    /\ xRead' = "copy"
    /\ UNCHANGED <<xMu, xFetch, xSnap, xLeft, xApp, xCached>>

\* the read returns its copy: the deferred s.mu.RUnlock()
XReadRUnlock ==
    /\ xRead = "copy"
    /\ xStoreMu' = [xStoreMu EXCEPT !.r = @ \ {"read"}]
    /\ xRead' = "idle"
    /\ UNCHANGED <<xMu, xFetch, xSnap, xLeft, xApp, xCached>>

\* Append: s.mu.Lock(), then the append and persist
XAppendLock ==
    /\ xApp = "idle"
    /\ LockReady(xStoreMu)
    /\ xStoreMu' = [xStoreMu EXCEPT !.w = "append"]
    /\ xApp' = "persist"
    /\ UNCHANGED <<xMu, xFetch, xSnap, xLeft, xRead, xCached>>

\* Append returns: the deferred s.mu.Unlock()
XAppendUnlock ==
    /\ xApp = "persist"
    /\ xStoreMu' = [xStoreMu EXCEPT !.w = "none"]
    /\ xApp' = "idle"
    /\ UNCHANGED <<xMu, xFetch, xSnap, xLeft, xRead, xCached>>

\* what a goroutine is doing where it is
Doing(t) ==
    CASE t = "fetch" ->
            (CASE xFetch \in {"status", "history"} -> "network"
               [] xFetch = "write" -> "store"
               [] OTHER -> "none")
      [] t = "snap" ->
            (CASE xSnap \in {"since", "latest"} -> "copy"
               [] xSnap \in {"filter", "peer-filter"} -> "filter"
               [] xSnap \in {"uptime", "peer-uptime"} -> "recompute"
               [] OTHER -> "none")
      [] t = "read" -> (IF xRead = "copy" THEN "copy" ELSE "none")
      [] OTHER -> (IF xApp = "persist" THEN "persist" ELSE "none")

LockIdle ==
    /\ xMu = Unlocked /\ xStoreMu = Unlocked
    /\ xFetch = "idle" /\ xSnap = "idle" /\ xLeft = 0
    /\ xRead = "idle" /\ xApp = "idle" /\ xCached = 0

(***************************************************************************)
(* Start and Stop of monitor.Monitor and monitor.ConnectivityMonitor: the  *)
(* two channels, the goroutine of run and the callers of Stop.  A Monitor  *)
(* is a ConnectivityMonitor that is always enabled.                        *)
(***************************************************************************)
\* the goroutines that call Stop
Stoppers == {1, 2, 3}

\* the process has died of a panic
Panicked == \E c \in Stoppers : qStop[c] = "panicked"

\* Start: go m.run(); a ConnectivityMonitor that is not enabled closes doneCh
\* instead
QStart ==
    /\ ~Panicked
    /\ ~qStarted
    /\ qStarted' = TRUE
    /\ IF qEnabled
       THEN qRun' = "first" /\ UNCHANGED qDoneCh
       ELSE qDoneCh' = "closed" /\ UNCHANGED qRun
    /\ UNCHANGED <<qEnabled, qStopCh, qStop>>

\* run: the first RunOnce (probe) is over, the ticker is made, the select is reached
QRunFirst ==
    /\ ~Panicked
    /\ qRun = "first"
    /\ qRun' = "select"
    /\ UNCHANGED <<qEnabled, qStopCh, qDoneCh, qStop, qStarted>>

\* select takes the case <-m.stopCh: run returns, the deferred close(m.doneCh) runs
QRunStop ==
    /\ ~Panicked
    /\ qRun = "select"
    /\ qStopCh = "closed"
    /\ qRun' = "exit"
    /\ qDoneCh' = "closed"
    /\ UNCHANGED <<qEnabled, qStopCh, qStop, qStarted>>

\* Stop: the select on doneCh returns at once when it is closed, and falls
\* through its default otherwise
QStopSelect(c) ==
    /\ ~Panicked
    /\ qStop[c] = "idle"
    /\ qStop' = [qStop EXCEPT ![c] = IF qDoneCh = "closed" THEN "returned" ELSE "close"]
    /\ UNCHANGED <<qEnabled, qStopCh, qDoneCh, qRun, qStarted>>

\* Stop: close(m.stopCh), which panics on a closed channel
QStopClose(c) ==
    /\ ~Panicked
    /\ qStop[c] = "close"
    /\ qStop' = [qStop EXCEPT ![c] = IF qStopCh = "closed" THEN "panicked" ELSE "wait"]
    /\ qStopCh' = "closed"
    /\ UNCHANGED <<qEnabled, qDoneCh, qRun, qStarted>>

\* Stop: <-m.doneCh returns once doneCh is closed
QStopWait(c) ==
    /\ ~Panicked
    /\ qStop[c] = "wait"
    /\ qDoneCh = "closed"
    /\ qStop' = [qStop EXCEPT ![c] = "returned"]
    /\ UNCHANGED <<qEnabled, qStopCh, qDoneCh, qRun, qStarted>>

\* the caller makes a further call of Stop
QStopAgain(c) ==
    /\ ~Panicked
    /\ qStop[c] = "returned"
    /\ qStop' = [qStop EXCEPT ![c] = "idle"]
    /\ UNCHANGED <<qEnabled, qStopCh, qDoneCh, qRun, qStarted>>

StopIdle ==
    /\ qEnabled = TRUE /\ qStopCh = "open" /\ qDoneCh = "open"
    /\ qRun = "none" /\ qStop = [c \in Stoppers |-> "idle"] /\ qStarted = FALSE

AuxIdle == aFailed = 0

OvIdle == PickIdle /\ GroupsIdle /\ MapIdle

RestInit == BucketInit /\ TimelineIdle /\ ConnIdle /\ ReadIdle /\ MonIdle /\ PushIdle /\ OvIdle
        /\ LockIdle /\ StopIdle /\ AuxIdle

(***************************************************************************)
(* The calculator on its own: the arguments are drawn from bounded sets,   *)
(* the entries grow one observation at a time, and a call returns rows.    *)
(***************************************************************************)
\* the checks one tick can carry
CheckLists ==
    { <<>>, <<Passing("a")>>, <<Failing("a")>>,
      <<Passing("a"), Silent("b")>>, <<Failing("a"), Passing("b")>> }

TargetLists ==
    { <<>>, <<Target("a", "Alpha")>>, <<Target("b", "Beta"), Target("a", "Alpha")>> }

Intervals == (-1) .. MaxInterval

NoResult == [done |-> FALSE, rows |-> <<>>]

UptimeInit ==
    /\ uEntries = <<>>
    /\ uStart \in 0 .. 1
    /\ uEnd \in 0 .. MaxTime
    /\ uInterval \in Intervals
    /\ uTargets \in TargetLists
    /\ uResult = NoResult
    /\ now = 0
    /\ StoreInit
    /\ CacheInit
    /\ SnapInit
    /\ LoopInit
    /\ RestInit

\* one more tick is observed: timestamps never decrease
UObserve ==
    /\ Len(uEntries) < MaxEntries
    /\ \E checks \in CheckLists :
          LET ts == IF uEntries = <<>> THEN uStart
                    ELSE Min(uEntries[Len(uEntries)].Timestamp + 1, MaxTime)
          IN  uEntries' = Append(uEntries, StatusEntry(ts, checks))
    /\ uResult' = NoResult
    /\ UNCHANGED <<uStart, uEnd, uInterval, uTargets>>

UCompute ==
    /\ ~uResult.done
    /\ uResult' = [done |-> TRUE,
                   rows |-> ComputeServiceUptime(uEntries, uStart, uEnd, uInterval, uTargets)]
    /\ UNCHANGED <<uEntries, uStart, uEnd, uInterval, uTargets>>

UptimeNext == (UObserve \/ UCompute) /\ UNCHANGED <<now, storeVars, cacheVars, snapVars, loopVars, restVars>>

SpecUptime == UptimeInit /\ [][UptimeNext]_vars

(***************************************************************************)
(* The store on its own: polling rounds append, writes and renames can     *)
(* fail, the process can crash at any step and start again.                *)
(***************************************************************************)
UptimeIdle ==
    /\ uEntries = <<>> /\ uStart = 0 /\ uEnd = 0 /\ uInterval = 0
    /\ uTargets = <<>> /\ uResult = NoResult

SpecStoreInit ==
    /\ UptimeIdle
    /\ now = 0
    /\ StoreInit
    /\ CacheInit
    /\ SnapInit
    /\ LoopInit
    /\ RestInit

SpecStoreNext ==
    \/ AppendBegin /\ UNCHANGED <<uptimeVars, now, cacheVars, snapVars, loopVars, restVars>>
    \/ PersistWriteOk /\ UNCHANGED <<uptimeVars, now, cacheVars, snapVars, loopVars, restVars>>
    \/ PersistWriteFail /\ UNCHANGED <<uptimeVars, now, cacheVars, snapVars, loopVars, restVars>>
    \/ PersistRenameOk /\ UNCHANGED <<uptimeVars, now, cacheVars, snapVars, loopVars, restVars>>
    \/ PersistRenameFail /\ UNCHANGED <<uptimeVars, now, cacheVars, snapVars, loopVars, restVars>>
    \/ Crash /\ UNCHANGED <<uptimeVars, now, cacheVars, snapVars, loopVars, restVars>>
    \/ Restart /\ UNCHANGED <<uptimeVars, now, cacheVars, snapVars, loopVars, restVars>>
    \/ Tick /\ UNCHANGED <<uptimeVars, storeVars, cacheVars, snapVars, loopVars, restVars>>

SpecStore == SpecStoreInit /\ [][SpecStoreNext]_vars

(***************************************************************************)
(* The read path: polling rounds append to the store, peers are fetched,   *)
(* and Snapshot calls for any window run beside them.  Readers wait for    *)
(* the store's lock, so an Append is one step here; the disk is the        *)
(* store's own business, and a failed persist leaves the same series in    *)
(* memory as a successful one.  A finished call hands its result to the    *)
(* caller before anything else moves: the return touches nothing shared,   *)
(* so no behaviour of the others is lost.                                  *)
(***************************************************************************)
SpecSnapshotInit ==
    /\ UptimeIdle
    /\ now = 0
    /\ StoreInit
    /\ CacheInit
    /\ SnapInit
    /\ LoopInit
    /\ RestInit

SpecSnapshotNext ==
    \/ spc # "done" /\ RoundDue /\ AppendPersisted
          /\ UNCHANGED <<uptimeVars, now, cacheVars, snapVars, loopVars, restVars>>
    \/ spc # "done" /\ now < MaxClock /\ Tick
          /\ UNCHANGED <<uptimeVars, storeVars, cacheVars, snapVars, loopVars, restVars>>
    \/ spc # "done" /\ FetchPeer /\ UNCHANGED <<uptimeVars, now, storeVars, snapVars, loopVars, restVars>>
    \/ SnapshotCall /\ UNCHANGED <<uptimeVars, now, storeVars, cacheVars, loopVars, restVars>>
    \/ SnapshotLatest /\ UNCHANGED <<uptimeVars, now, storeVars, cacheVars, loopVars, restVars>>
    \/ SnapshotPeers /\ UNCHANGED <<uptimeVars, now, storeVars, cacheVars, loopVars, restVars>>
    \/ SnapshotReturn /\ UNCHANGED <<uptimeVars, now, storeVars, cacheVars, loopVars, restVars>>

SpecSnapshot == SpecSnapshotInit /\ [][SpecSnapshotNext]_vars

(***************************************************************************)
(* The refresh loop: Start once, Stop at any time, the ticker and the      *)
(* requests of each cycle, the clock moving meanwhile.                     *)
(***************************************************************************)
SpecClusterInit ==
    /\ UptimeIdle
    /\ now = 0
    /\ StoreInit
    /\ CacheInit
    /\ SnapInit
    /\ LoopInit
    /\ RestInit

SpecClusterNext ==
    \/ Start /\ UNCHANGED <<uptimeVars, now, storeVars, snapVars, restVars>>
    \/ Stop /\ UNCHANGED <<uptimeVars, now, storeVars, snapVars, restVars>>
    \/ TimerFire /\ UNCHANGED <<uptimeVars, now, storeVars, snapVars, restVars>>
    \/ FetchSkip /\ UNCHANGED <<uptimeVars, now, storeVars, snapVars, restVars>>
    \/ FetchStatusFail /\ UNCHANGED <<uptimeVars, now, storeVars, snapVars, restVars>>
    \/ FetchStatusOk /\ UNCHANGED <<uptimeVars, now, storeVars, snapVars, restVars>>
    \/ FetchHistoryFail /\ UNCHANGED <<uptimeVars, now, storeVars, snapVars, restVars>>
    \/ FetchHistoryOk /\ UNCHANGED <<uptimeVars, now, storeVars, snapVars, restVars>>
    \/ CycleEnd /\ UNCHANGED <<uptimeVars, now, storeVars, snapVars, restVars>>
    \/ SelectTick /\ UNCHANGED <<uptimeVars, now, storeVars, snapVars, restVars>>
    \/ SelectDone /\ UNCHANGED <<uptimeVars, now, storeVars, snapVars, restVars>>
    \/ now < MaxClock /\ Tick
          /\ UNCHANGED <<uptimeVars, storeVars, cacheVars, snapVars, loopVars, restVars>>

SpecCluster == SpecClusterInit /\ [][SpecClusterNext]_vars

(***************************************************************************)
(* Claims about ComputeServiceUptime, under SpecUptime.                    *)
(***************************************************************************)
\* the number of checks of id in the entries, counted position by position
CountChecks(entries, id) ==
    Cardinality(UNION { { <<i, j>> : j \in {n \in DOMAIN entries[i].Checks :
                                                entries[i].Checks[n].ID = id} } :
                        i \in DOMAIN entries })

\* C8: in every row passing + failing is the number of checks of that id in
\* the supplied entries plus the missing-slot count, and every row of one
\* result reports the same missing-slot count.
C8_PassFailBalance ==
    uResult.done =>
        /\ \A k \in DOMAIN uResult.rows :
              uResult.rows[k].Passing + uResult.rows[k].Failing
                 = CountChecks(uEntries, uResult.rows[k].ID) + uResult.rows[k].Missing
        /\ \A k, l \in DOMAIN uResult.rows :
              uResult.rows[k].Missing = uResult.rows[l].Missing

\* two rows with different check counts and a missing slot
C8_Witness ==
    /\ uResult.done
    /\ Len(uResult.rows) = 2
    /\ uResult.rows[1].Missing > 0
    /\ CountChecks(uEntries, "a") > CountChecks(uEntries, "b")
    /\ CountChecks(uEntries, "b") > 0

\* the least q with q * d >= n, for d > 0 and any n
CeilQuotient(n, d) ==
    CHOOSE q \in (0 - (MaxTime + 1)) .. (MaxTime + 1) : q * d >= n /\ (q - 1) * d < n

\* the missing-slot count as the specification words it
SpecMissing ==
    IF uInterval > 0
    THEN Max(0, Max(CeilQuotient(uEnd - uStart, uInterval), Len(uEntries)) - Len(uEntries))
    ELSE 0

\* three passing ticks of one target at T, T+1, T+2, interval 1, window [T, T+2]
ScenarioA ==
    /\ uStart = 0 /\ uEnd = 2 /\ uInterval = 1
    /\ uTargets = <<Target("a", "Alpha")>>
    /\ uEntries = [i \in 1 .. 3 |-> StatusEntry(i - 1, <<Passing("a")>>)]

\* C9: the missing-slot count of every row is max(0, expectedSlots - observed)
\* with expectedSlots = ceil((end - start) / interval) raised to the number of
\* entries when interval > 0, and 0 when interval <= 0; scenario A gives
\* missing = 0 and total = 3.
C9_MissingSlotCount ==
    uResult.done =>
        /\ \A k \in DOMAIN uResult.rows : uResult.rows[k].Missing = SpecMissing
        /\ ScenarioA =>
              /\ Len(uResult.rows) = 1
              /\ uResult.rows[1].Missing = 0
              /\ uResult.rows[1].TotalChecks = 3

\* scenario A computed
C9_Witness ==
    /\ uResult.done
    /\ ScenarioA
    /\ uResult.rows[1].Missing = 0

\* C10: uptime_percent lies in [0, 100], is exactly 100 when failing = 0 and
\* passing > 0, and is 0 when passing = 0 and (failing > 0 or missing > 0).
C10_UptimeRange ==
    uResult.done =>
        \A k \in DOMAIN uResult.rows :
            LET row == uResult.rows[k]
            IN  /\ row.UptimePercent >= 0
                /\ row.UptimePercent <= 10000
                /\ (row.Failing = 0 /\ row.Passing > 0) => row.UptimePercent = 10000
                /\ (row.Passing = 0 /\ (row.Failing > 0 \/ row.Missing > 0))
                      => row.UptimePercent = 0

\* one row at exactly 100, one at 0 because of failures, in one result
C10_Witness ==
    /\ uResult.done
    /\ \E k, l \in DOMAIN uResult.rows :
          /\ uResult.rows[k].Failing = 0 /\ uResult.rows[k].Passing > 0
          /\ uResult.rows[k].UptimePercent = 10000
          /\ uResult.rows[l].Passing = 0 /\ uResult.rows[l].Failing > 0
          /\ uResult.rows[l].UptimePercent = 0

(***************************************************************************)
(* Claims about StatusStorage, under SpecStore.                            *)
(***************************************************************************)
\* C1: when Append returns an error the in-memory series is what it was
\* before the call: no later Latest, History, HistorySince or HistoryN
\* returns the entry.
C1_FailedAppendLeavesSeries ==
    (proc = "up" /\ apc = "idle" /\ lastErr # NoError) =>
        /\ History(history) = preHistory
        /\ HistoryN(history, 0) = preHistory
        /\ HistorySince(history, 0) = preHistory
        /\ Latest(history) = Latest(preHistory)

\* C2: at every step, crashes and failed writes and renames included, the
\* durable file is absent or parses completely, to the series last
\* successfully persisted or to the series being persisted.
C2_DurableFileComplete ==
    file # NoFile =>
        /\ Unmarshal(file).ok
        /\ \/ Unmarshal(file).entries = persisted
           \/ proc = "up" /\ apc # "idle" /\ Unmarshal(file).entries = history

\* a crash cut a write short: the temporary file is partial, the durable file
\* still holds the series persisted before
C2_Witness ==
    /\ proc = "down"
    /\ tmp # NoFile /\ Len(tmp) >= 2 /\ ~Unmarshal(tmp).ok
    /\ file # NoFile /\ Len(Unmarshal(file).entries) >= 1

(***************************************************************************)
(* Claims about cluster.Service.Snapshot, under SpecSnapshot.              *)
(***************************************************************************)
\* the series the store held when the call in progress was made
CallHistory == SubSeq(history, 1, callLen)

\* the local history and rows as the store, the window, the targets and the
\* interval alone determine them
LocalExpectedHistory ==
    SelectSeq(CallHistory,
              LAMBDA e : sReq.start <= e.Timestamp /\ e.Timestamp <= sReq.end)

LocalExpectedServices ==
    ComputeServiceUptime(LocalExpectedHistory, sReq.start, sReq.end,
                         LocalInterval, LocalTargets)

\* C4: the local node's history and uptime rows in a returned snapshot are a
\* function of the store at the call, the window, the configured targets and
\* the interval; whatever the peers' fetches did, they are the same.
C4_LocalIndependentOfPeers ==
    spc = "done" =>
        /\ snap.Nodes[1].Node.ID = LocalNode.ID
        /\ snap.Nodes[1].History = LocalExpectedHistory
        /\ snap.Nodes[1].Services = LocalExpectedServices

\* a snapshot returned while one peer is cached in error and the other with a
\* history, the local node having entries and rows
C4_Witness ==
    /\ spc = "done"
    /\ DOMAIN peersData = {"p1", "p2"}
    /\ peersData["p2"].Error # "" /\ peersData["p1"].Error = ""
    /\ Len(peersData["p1"].History) > 0
    /\ Len(snap.Nodes[1].History) = 2
    /\ Len(snap.Nodes[1].Services) = 1

\* the interval a node's rows are computed with
NodeInterval(n) ==
    IF n.Node.IntervalMinutes > 0 THEN n.Node.IntervalMinutes ELSE LocalInterval

\* the history a node of the snapshot was filtered from
NodeSourceHistory(n) ==
    IF n.Source = "local" THEN CallHistory ELSE peersData[n.Node.ID].History

\* C5: every node of a returned snapshot, local or peer, holds exactly the
\* entries of its history with start <= timestamp <= end, and its Services
\* are ComputeServiceUptime of these entries over [start, end]; nothing a
\* peer reported as aggregates is in the result.
C5_NodesRecomputedForWindow ==
    spc = "done" =>
        \A k \in DOMAIN snap.Nodes :
            LET n == snap.Nodes[k]
            IN  /\ \A i \in DOMAIN n.History :
                       sReq.start <= n.History[i].Timestamp
                       /\ n.History[i].Timestamp <= sReq.end
                /\ n.History =
                       SelectSeq(NodeSourceHistory(n),
                                 LAMBDA e : sReq.start <= e.Timestamp
                                            /\ e.Timestamp <= sReq.end)
                /\ n.Services =
                       ComputeServiceUptime(n.History, sReq.start, sReq.end,
                                            NodeInterval(n), n.Targets)

\* a peer whose cached history has an entry outside the window: the node
\* returned holds fewer entries than the cache, and rows for both services
C5_Witness ==
    /\ spc = "done"
    /\ \E k \in DOMAIN snap.Nodes :
          /\ snap.Nodes[k].Source = "peer"
          /\ Len(peersData[snap.Nodes[k].Node.ID].History) = 2
          /\ Len(snap.Nodes[k].History) = 1
          /\ Len(snap.Nodes[k].Services) = 2

\* C6: a returned snapshot starts with the local node computed from the store
\* as it was at the call, every entry appended before the call and inside the
\* window included, and goes on with exactly one node for each peer id in the
\* cache.
C6_FreshLocalThenEachPeer ==
    spc = "done" =>
        /\ Len(snap.Nodes) = 1 + Cardinality(DOMAIN peersData)
        /\ snap.Nodes[1].Source = "local"
        /\ \A i \in 1 .. callLen :
              (sReq.start <= history[i].Timestamp /\ history[i].Timestamp <= sReq.end)
                  => \E j \in DOMAIN snap.Nodes[1].History :
                         snap.Nodes[1].History[j] = history[i]
        /\ snap.Nodes[1].History = LocalHistory(CallHistory, sReq.start, sReq.end)
        /\ callLen > 0 =>
              /\ snap.Nodes[1].Status.present
              /\ \E i \in callLen .. Len(history) :
                     snap.Nodes[1].Status.entry = history[i]
        /\ \A id \in DOMAIN peersData :
              Cardinality({k \in 2 .. Len(snap.Nodes) : snap.Nodes[k].Node.ID = id}) = 1
        /\ \A k \in 2 .. Len(snap.Nodes) :
              /\ snap.Nodes[k].Source = "peer"
              /\ snap.Nodes[k].Node = peersData[snap.Nodes[k].Node.ID].Node

\* a call made after two Appends at different times, both inside the window,
\* with both peers cached
C6_Witness ==
    /\ spc = "done"
    /\ callLen = 2
    /\ history[1].Timestamp < history[2].Timestamp
    /\ Len(snap.Nodes[1].History) = 2
    /\ Len(snap.Nodes) = 3

(***************************************************************************)
(* Claims about the refresh loop of cluster.Service, under SpecCluster.    *)
(***************************************************************************)
\* a refresh cycle has completed and no other is in progress
CycleCompleted == lpc \in {"select", "exit"} /\ ticker # "none"

\* the cache entry of an enabled peer after a cycle, against what its fetch
\* came to
EntryMatchesOutcome(peer) ==
    /\ peer.ID \in DOMAIN peersData
    /\ LET e == peersData[peer.ID]
           o == outcome[peer.ID]
       IN  /\ o.kind \in {"ok", "err"}
           /\ e.Node.ID = peer.ID
           /\ e.UpdatedAt = o.at
           /\ o.kind = "ok" =>
                 /\ e.Error = ""
                 /\ e.Status = o.status.Status
                 /\ Len(o.hist) <= HistoryCap => e.History = o.hist
           /\ o.kind = "err" =>
                 /\ e.Error = o.err
                 /\ e.Node.Name = peer.Name
                 /\ ~e.Status.present
                 /\ e.History = <<>> /\ e.Services = <<>> /\ e.Targets = <<>>

\* C3: after every completed refresh cycle each enabled peer has a cache
\* entry, the snapshot just fetched when its fetch succeeded and an entry of
\* node identity, error text and refresh timestamp alone when it failed; and
\* no step takes a peer id out of the cache.
C3_EveryPeerCachedAfterCycle ==
    /\ [](CycleCompleted =>
             \A i \in DOMAIN Peers : Peers[i].Enabled => EntryMatchesOutcome(Peers[i]))
    /\ [][DOMAIN peersData \subseteq DOMAIN peersData']_vars

\* a completed cycle in which p1 answered with two entries and p2 failed
C3_Witness ==
    /\ CycleCompleted
    /\ outcome["p1"].kind = "ok" /\ Len(peersData["p1"].History) = 2
    /\ outcome["p2"].kind = "err" /\ peersData["p2"].Error # ""

\* C7: once Stop has been called the loop starts no further refresh cycle
\* on a timer tick.
C7_NoCycleAfterStop ==
    [][cancelled => ~(lpc = "select" /\ lpc' = "fetch")]_vars

(***************************************************************************)
(* evaluateBucket on its own: a bucket gathers samples one at a time and   *)
(* is evaluated.                                                           *)
(***************************************************************************)
RestIdle ==
    /\ UptimeIdle
    /\ now = 0
    /\ StoreInit
    /\ CacheInit
    /\ SnapInit
    /\ LoopInit

SpecBucketInit == RestIdle /\ BucketInit /\ TimelineIdle /\ ConnIdle /\ ReadIdle /\ MonIdle /\ PushIdle /\ OvIdle
        /\ LockIdle /\ StopIdle /\ AuxIdle

SpecBucketNext ==
    \/ BObserve /\ UNCHANGED <<uptimeVars, now, storeVars, cacheVars, snapVars, loopVars,
                               timelineVars, connVars, readVars, monVars, pushVars, ovVars,
        lockVars, stopVars, auxVars>>
    \/ BEvaluate /\ UNCHANGED <<uptimeVars, now, storeVars, cacheVars, snapVars, loopVars,
                                timelineVars, connVars, readVars, monVars, pushVars, ovVars,
        lockVars, stopVars, auxVars>>

SpecBucket == SpecBucketInit /\ [][SpecBucketNext]_vars

(***************************************************************************)
(* Claims about evaluateBucket, under SpecBucket.                          *)
(***************************************************************************)
\* the precedence of the classes: ERROR > MISSING > WARNING > SUCCESS
ClassRank(class) ==
    CASE class = "error" -> 4
      [] class = "missing" -> 3
      [] class = "warning" -> 2
      [] class = "success" -> 1

ClassNameOf(class) ==
    CASE class = "error" -> "state-error"
      [] class = "missing" -> "state-missing"
      [] class = "warning" -> "state-warning"
      [] class = "success" -> "state-success"

BucketClasses == {SampleClass(bEntries[i]) : i \in DOMAIN bEntries}

\* C11: a non-empty bucket is classified as the highest class among its
\* samples in the order ERROR > MISSING > WARNING > SUCCESS; one ERROR sample
\* makes the bucket ERROR whatever else it holds.
C11_BucketPrecedence ==
    (bResult.done /\ Len(bEntries) > 0) =>
        /\ \E c \in BucketClasses :
              /\ \A d \in BucketClasses : ClassRank(d) <= ClassRank(c)
              /\ bResult.out.ClassName = ClassNameOf(c)
        /\ "error" \in BucketClasses => bResult.out.ClassName = "state-error"

\* an ERROR bucket with one error sample among four successes
C11_Witness ==
    /\ bResult.done
    /\ Len(bEntries) = 5
    /\ Cardinality({i \in DOMAIN bEntries : SampleClass(bEntries[i]) = "error"}) = 1
    /\ Cardinality({i \in DOMAIN bEntries : SampleClass(bEntries[i]) = "success"}) = 4
    /\ bResult.out.ClassName = "state-error"

\* a sample that resolves to ok, active or running
ResolvesOk(entry) == entry.OK \/ ToLower(entry.State) \in {"active", "running"}

\* a sample in one of the recognized warning states
HasWarningState(entry) ==
    ToLower(entry.State) \in {"activating", "deactivating", "reloading", "maintenance"}

NoErrorSample == \A i \in DOMAIN bEntries : SampleClass(bEntries[i]) # "error"

\* C12 as stated: a bucket without an ERROR sample is MISSING exactly when no
\* sample resolves to ok/active/running and none has a recognized warning
\* state.
C12_MissingExactlyWhenNoneResolves ==
    (bResult.done /\ NoErrorSample) =>
        (bResult.out.ClassName = "state-missing"
            <=> \A i \in DOMAIN bEntries :
                    ~ResolvesOk(bEntries[i]) /\ ~HasWarningState(bEntries[i]))

\* C12, amended: a bucket without an ERROR sample is MISSING exactly when it
\* is empty or at least one of its samples neither resolves to
\* ok/active/running nor has a recognized warning state; so it is MISSING
\* whenever no sample resolves and none warns, the empty bucket included.
C12_MissingWhenAnyUnresolved ==
    (bResult.done /\ NoErrorSample) =>
        /\ bResult.out.ClassName = "state-missing"
              <=> \/ Len(bEntries) = 0
                  \/ \E i \in DOMAIN bEntries :
                         ~ResolvesOk(bEntries[i]) /\ ~HasWarningState(bEntries[i])
        /\ (\A i \in DOMAIN bEntries :
                ~ResolvesOk(bEntries[i]) /\ ~HasWarningState(bEntries[i]))
              => bResult.out.ClassName = "state-missing"

\* a MISSING bucket that holds an unresolved sample beside an active one and
\* a warning one
C12_Witness ==
    /\ bResult.done
    /\ NoErrorSample
    /\ \E i, j, k \in DOMAIN bEntries :
          /\ ~ResolvesOk(bEntries[i]) /\ ~HasWarningState(bEntries[i])
          /\ ResolvesOk(bEntries[j])
          /\ HasWarningState(bEntries[k]) /\ ~ResolvesOk(bEntries[k])
    /\ bResult.out.ClassName = "state-missing"

\* the samples of the bucket a detail record can come from
TriggeringSamples ==
    {i \in DOMAIN bEntries : SampleClass(bEntries[i]) \in {"error", "warning"}}

\* Scenario C: one sample with state "failed" and two with state "active"
ScenarioC ==
    /\ Len(bEntries) = 3
    /\ Cardinality({i \in DOMAIN bEntries :
                       bEntries[i].State = "failed" /\ ~bEntries[i].OK}) = 1
    /\ Cardinality({i \in DOMAIN bEntries :
                       bEntries[i].State = "active" /\ bEntries[i].OK}) = 2

\* C13: a bucket carries at most 4 detail records, each of them the record of
\* an error or warning sample of the bucket, and none when it is SUCCESS; in
\* Scenario C the bucket is ERROR with exactly one detail record.
C13_DetailsBounded ==
    bResult.done =>
        /\ Len(bResult.out.Details) <= 4
        /\ \A k \in DOMAIN bResult.out.Details :
              \E i \in TriggeringSamples :
                  /\ bResult.out.Details[k].Timestamp = bEntries[i].Timestamp
                  /\ bResult.out.Details[k].State = bEntries[i].State
                  /\ bResult.out.Details[k].Error = bEntries[i].Error
        /\ bResult.out.ClassName = "state-success" => bResult.out.Details = <<>>
        /\ ScenarioC =>
              /\ bResult.out.ClassName = "state-error"
              /\ Len(bResult.out.Details) = 1

\* Scenario C evaluated
C13_Witness ==
    /\ bResult.done
    /\ ScenarioC
    /\ Len(bResult.out.Details) = 1

(***************************************************************************)
(* buildTimeline on its own.                                               *)
(***************************************************************************)
SpecTimelineInit == RestIdle /\ BucketInit /\ TimelineInit /\ ConnIdle /\ ReadIdle /\ MonIdle /\ PushIdle /\ OvIdle
        /\ LockIdle /\ StopIdle /\ AuxIdle

SpecTimelineNext ==
    \/ TObserve /\ UNCHANGED <<uptimeVars, now, storeVars, cacheVars, snapVars, loopVars,
                               bucketVars, connVars, readVars, monVars, pushVars, ovVars,
        lockVars, stopVars, auxVars>>
    \/ TBuild /\ UNCHANGED <<uptimeVars, now, storeVars, cacheVars, snapVars, loopVars,
                             bucketVars, connVars, readVars, monVars, pushVars, ovVars,
        lockVars, stopVars, auxVars>>

SpecTimeline == SpecTimelineInit /\ [][SpecTimelineNext]_vars

(***************************************************************************)
(* Claims about buildTimeline, under SpecTimeline.                         *)
(***************************************************************************)
\* C14: for a window with end after start and N > 0 buckets the timeline has
\* exactly N buckets, the first starting at start, each starting where the
\* one before ends, all but the last (end - start) / N wide, the last ending
\* at end.
C14_BucketsTileWindow ==
    (tOut.done /\ tEnd > tStart /\ tPoints > 0) =>
        LET out == tOut.points
        IN  /\ Len(out) = tPoints
            /\ out[1].Start = tStart
            /\ \A i \in 2 .. Len(out) : out[i].Start = out[i - 1].End
            /\ \A i \in 1 .. (Len(out) - 1) :
                  out[i].End - out[i].Start = (tEnd - tStart) \div tPoints
            /\ out[Len(out)].End = tEnd

(***************************************************************************)
(* BuildConnectivityTimeline on its own.                                   *)
(***************************************************************************)
SpecConnectivityInit == RestIdle /\ BucketInit /\ TimelineIdle /\ ConnInit /\ ReadIdle /\ MonIdle /\ PushIdle /\ OvIdle
        /\ LockIdle /\ StopIdle /\ AuxIdle

SpecConnectivityNext ==
    \/ CObserve /\ UNCHANGED <<uptimeVars, now, storeVars, cacheVars, snapVars, loopVars,
                               bucketVars, timelineVars, readVars, monVars, pushVars, ovVars,
        lockVars, stopVars, auxVars>>
    \/ CBuild /\ UNCHANGED <<uptimeVars, now, storeVars, cacheVars, snapVars, loopVars,
                             bucketVars, timelineVars, readVars, monVars, pushVars, ovVars,
        lockVars, stopVars, auxVars>>

SpecConnectivity == SpecConnectivityInit /\ [][SpecConnectivityNext]_vars

(***************************************************************************)
(* Claims about BuildConnectivityTimeline, under SpecConnectivity.         *)
(***************************************************************************)
\* the probes that carry their time, and those of them inside a bucket or before it
Probes == {cEntries[i] : i \in {k \in DOMAIN cEntries : cEntries[k].CheckedAt # ZeroTime}}

ProbesIn(point) ==
    {e \in Probes : point.Start <= e.CheckedAt /\ e.CheckedAt <= point.End}

ProbesBefore(point) == {e \in Probes : e.CheckedAt < point.Start}

\* twice the median of the gaps between neighbouring probes, within [1m, 2h],
\* and 5m when there are fewer than two probes
GapThreshold ==
    DeriveConnectivityGap(SortStatuses(SelectSeq(cEntries, LAMBDA e : e.CheckedAt # ZeroTime)))

\* C15: a bucket of the connectivity timeline without a sample has the class
\* of the most recent earlier sample when the gap from that sample to the
\* start of the bucket is within the derived threshold, and is MISSING when
\* the gap is larger or there is no earlier sample.
C15_EmptyBucketHoldsOver ==
    cOut.done =>
        \A i \in DOMAIN cOut.points :
            LET point == cOut.points[i]
            IN  ProbesIn(point) = {} =>
                  IF ProbesBefore(point) = {}
                  THEN point.ClassName = "state-missing"
                  ELSE LET last == CHOOSE e \in ProbesBefore(point) :
                                     \A f \in ProbesBefore(point) :
                                         f.CheckedAt <= e.CheckedAt
                       IN  IF point.Start - last.CheckedAt <= GapThreshold
                           THEN point.ClassName = ConnectivityClass(last).ClassName
                           ELSE point.ClassName = "state-missing"

\* a timeline with an empty bucket held over from an earlier probe and a
\* later empty bucket that is MISSING because the silence lasted too long
C15_Witness ==
    /\ cOut.done
    /\ \E i, j \in DOMAIN cOut.points :
          /\ i < j
          /\ ProbesIn(cOut.points[i]) = {} /\ ProbesIn(cOut.points[j]) = {}
          /\ ProbesBefore(cOut.points[i]) # {}
          /\ cOut.points[i].ClassName = "state-error"
          /\ cOut.points[j].ClassName = "state-missing"

(***************************************************************************)
(* Callers of the reads: rounds are appended, values are read, and a       *)
(* caller changes the value it holds.                                      *)
(***************************************************************************)
SpecAliasInit == RestIdle /\ RestInit

SpecAliasNext ==
    \/ AppendRound /\ UNCHANGED <<uptimeVars, cacheVars, snapVars, loopVars,
                                  bucketVars, timelineVars, connVars, monVars, pushVars, ovVars,
        lockVars, stopVars, auxVars>>
    \/ Tick /\ UNCHANGED <<uptimeVars, storeVars, cacheVars, snapVars, loopVars, restVars>>
    \/ Read /\ UNCHANGED <<uptimeVars, cacheVars, snapVars, loopVars,
                           bucketVars, timelineVars, connVars, monVars, pushVars, ovVars,
        lockVars, stopVars, auxVars>>
    \/ CallerWriteCheck /\ UNCHANGED <<uptimeVars, cacheVars, snapVars, loopVars,
                                       bucketVars, timelineVars, connVars, monVars, pushVars, ovVars,
        lockVars, stopVars, auxVars>>
    \/ CallerSetChecks /\ UNCHANGED <<uptimeVars, cacheVars, snapVars, loopVars,
                                      bucketVars, timelineVars, connVars, monVars, pushVars, ovVars,
        lockVars, stopVars, auxVars>>
    \/ CallerSetTimestamp /\ UNCHANGED <<uptimeVars, cacheVars, snapVars, loopVars,
                                         bucketVars, timelineVars, connVars, monVars, pushVars, ovVars,
        lockVars, stopVars, auxVars>>

SpecAlias == SpecAliasInit /\ [][SpecAliasNext]_vars

\* everything the four reads can return of the series h
AllReads(h) ==
    [o \in ReadOps |-> <<ReadValue(o[1], o[2], h), ReadOk(o[1], h)>>]

\* C16: whatever a caller changes through a value returned by Latest, History,
\* HistorySince or HistoryN, the Checks of a returned entry included, every
\* later read of the store returns what it would have returned without the
\* change.
C16_ReturnedValuesAreCopies ==
    [][(CallerWriteCheck \/ CallerSetChecks \/ CallerSetTimestamp)
          => AllReads(history') = AllReads(history)]_vars

(***************************************************************************)
(* Readers beside the writer: an Append goes step by step from Lock to     *)
(* Unlock, and the four reads are called at any moment.  A result goes to  *)
(* its caller before anything else moves.  The disk does what it is asked: *)
(* a persist that fails holds the lock as long and leaves the same series  *)
(* in memory.                                                              *)
(***************************************************************************)
SpecReadsInit == RestIdle /\ RestInit

SpecReadsNext ==
    \/ ret.op = "none" /\ AppendLock
           /\ UNCHANGED <<uptimeVars, cacheVars, snapVars, loopVars,
                          bucketVars, timelineVars, connVars, monVars, pushVars, ovVars,
        lockVars, stopVars, auxVars>>
    \/ ret.op = "none" /\ AppendWriting
           /\ UNCHANGED <<uptimeVars, cacheVars, snapVars, loopVars,
                          bucketVars, timelineVars, connVars, monVars, pushVars, ovVars,
        lockVars, stopVars, auxVars>>
    \/ ret.op = "none" /\ AppendStored
           /\ UNCHANGED <<uptimeVars, cacheVars, snapVars, loopVars,
                          bucketVars, timelineVars, connVars, monVars, pushVars, ovVars,
        lockVars, stopVars, auxVars>>
    \/ ret.op = "none" /\ PersistWriteOk
           /\ UNCHANGED <<uptimeVars, now, cacheVars, snapVars, loopVars, restVars>>
    \/ ret.op = "none" /\ PersistRenameOk
           /\ UNCHANGED <<uptimeVars, now, cacheVars, snapVars, loopVars, restVars>>
    \/ ret.op = "none" /\ Tick
           /\ UNCHANGED <<uptimeVars, storeVars, cacheVars, snapVars, loopVars, restVars>>
    \/ ReadCall /\ UNCHANGED <<uptimeVars, cacheVars, snapVars, loopVars,
                               bucketVars, timelineVars, connVars, monVars, pushVars, ovVars,
        lockVars, stopVars, auxVars>>
    \/ ReadReturn /\ UNCHANGED <<uptimeVars, cacheVars, snapVars, loopVars,
                                 bucketVars, timelineVars, connVars, monVars, pushVars, ovVars,
        lockVars, stopVars, auxVars>>

SpecReads == SpecReadsInit /\ [][SpecReadsNext]_vars

\* the series is in non-decreasing order of Timestamp
Sorted(h) == \A i, j \in DOMAIN h : i < j => h[i].Timestamp <= h[j].Timestamp

\* C17: on a series sorted ascending by timestamp, HistorySince(cutoff)
\* returns exactly the entries whose timestamp is >= cutoff, in stored order,
\* and the empty result when there is none.
C17_HistorySinceIsSuffixFromCutoff ==
    (ret.op = "HistorySince" /\ Sorted(history)) =>
        ret.value = SelectSeq(history, LAMBDA e : e.Timestamp >= ret.arg)

\* HistorySince has returned the two later entries of three, the one at the
\* cutoff among them; and, of another series, nothing
C17_Witness ==
    /\ ret.op = "HistorySince"
    /\ Len(history) = MaxHistory
    /\ \/ /\ Len(ret.value) = 2
          /\ ret.value[1].Timestamp = ret.arg
          /\ history[1].Timestamp < ret.arg
       \/ /\ ret.value = <<>>
          /\ history[1].Timestamp < history[MaxHistory].Timestamp

\* the entries of a returned value with Timestamp in [t, now]
InWindow(value, t) == SelectSeq(value, LAMBDA e : t <= e.Timestamp /\ e.Timestamp <= now)

\* k covers the window from t: it is at least the number of stored entries
\* in [t, now], or it asks for everything
Covers(k, t) == k <= 0 \/ k >= Len(InWindow(history, t))

C20_ReadsSeeWholeAppend ==
    ret.op # "none" =>
        \E h \in {ret.before, ret.after} :
            /\ ret.value = ReadValue(ret.op, ret.arg, h)
            /\ ret.ok = ReadOk(ret.op, h)

\* a read has returned the series after an Append that failed no reader
C20_Witness ==
    /\ ret.op = "History"
    /\ ret.before # ret.after
    /\ ret.value = ret.after
    /\ Len(ret.value) >= 2

(***************************************************************************)
(* Claims about the order of the series, under SpecStore.                  *)
(***************************************************************************)
\* the series h is the beginning of the series g
IsPrefix(h, g) == Len(h) <= Len(g) /\ SubSeq(g, 1, Len(h)) = h

SpecViewInit == RestIdle /\ RestInit

SpecViewNext ==
    \/ spc # "done" /\ Start /\ UNCHANGED <<uptimeVars, now, storeVars, snapVars, restVars>>
    \/ spc # "done" /\ Stop /\ UNCHANGED <<uptimeVars, now, storeVars, snapVars, restVars>>
    \/ spc # "done" /\ TimerFire
          /\ UNCHANGED <<uptimeVars, now, storeVars, snapVars, restVars>>
    \/ spc # "done" /\ FetchSkip
          /\ UNCHANGED <<uptimeVars, now, storeVars, snapVars, restVars>>
    \/ spc # "done" /\ FetchStatusFail
          /\ UNCHANGED <<uptimeVars, now, storeVars, snapVars, restVars>>
    \/ spc # "done" /\ FetchStatusOk
          /\ UNCHANGED <<uptimeVars, now, storeVars, snapVars, restVars>>
    \/ spc # "done" /\ FetchHistoryFail
          /\ UNCHANGED <<uptimeVars, now, storeVars, snapVars, restVars>>
    \/ spc # "done" /\ FetchHistoryOk
          /\ UNCHANGED <<uptimeVars, now, storeVars, snapVars, restVars>>
    \/ spc # "done" /\ CycleEnd
          /\ UNCHANGED <<uptimeVars, now, storeVars, snapVars, restVars>>
    \/ spc # "done" /\ SelectTick
          /\ UNCHANGED <<uptimeVars, now, storeVars, snapVars, restVars>>
    \/ spc # "done" /\ SelectDone
          /\ UNCHANGED <<uptimeVars, now, storeVars, snapVars, restVars>>
    \/ spc # "done" /\ now < MaxClock /\ Tick
          /\ UNCHANGED <<uptimeVars, storeVars, cacheVars, snapVars, loopVars, restVars>>
    \/ SnapshotCall /\ UNCHANGED <<uptimeVars, now, storeVars, cacheVars, loopVars, restVars>>
    \/ SnapshotLatest /\ UNCHANGED <<uptimeVars, now, storeVars, cacheVars, loopVars, restVars>>
    \/ SnapshotPeers /\ UNCHANGED <<uptimeVars, now, storeVars, cacheVars, loopVars, restVars>>
    \/ SnapshotReturn /\ UNCHANGED <<uptimeVars, now, storeVars, cacheVars, loopVars, restVars>>

SpecView == SpecViewInit /\ [][SpecViewNext]_vars

(***************************************************************************)
(* Claims about the errors of peers, under SpecView.                       *)
(***************************************************************************)
\* the ids whose cache entry a step has written or changed
Written == {id \in DOMAIN peersData' :
               IF id \in DOMAIN peersData THEN peersData'[id] # peersData[id] ELSE TRUE}

\* after a cycle every enabled peer has been fetched and its entry holds an
\* error exactly when its own fetch failed, and then that error
OwnOutcomeRecorded ==
    \A i \in DOMAIN Peers :
        Peers[i].Enabled =>
            LET id == Peers[i].ID
            IN  /\ outcome[id].kind \in {"ok", "err"}
                /\ id \in DOMAIN peersData
                /\ outcome[id].kind = "ok" => peersData[id].Error = ""
                /\ outcome[id].kind = "err" => peersData[id].Error = outcome[id].err

\* a returned snapshot has the local node without an error and one node for
\* every cached peer, with the error of that peer's entry and no other
SnapshotCarriesErrors ==
    /\ Len(snap.Nodes) = 1 + Cardinality(DOMAIN peersData)
    /\ snap.Nodes[1].Source = "local" /\ snap.Nodes[1].Error = ""
    /\ \A id \in DOMAIN peersData :
          \E k \in 2 .. Len(snap.Nodes) :
              /\ snap.Nodes[k].Node.ID = id
              /\ snap.Nodes[k].Error = peersData[id].Error

\* C21: within one refresh cycle every enabled peer is fetched and its cache
\* entry written whatever the fetches of the other peers came to; the error
\* of a peer's fetch is written to that peer's entry only; and Snapshot
\* returns its snapshot all the same, the error inside that peer's node.
C21_PeerErrorsStayWithPeer ==
    /\ [](CycleCompleted => OwnOutcomeRecorded)
    /\ [](spc = "done" => SnapshotCarriesErrors)
    /\ [][IF Written = {} THEN TRUE
          ELSE lpc = "fetch" /\ fetchIdx \in DOMAIN Peers
                 /\ Written = {Peers[fetchIdx].ID}]_vars

\* a cycle in which the first peer failed, the second was fetched after it
\* and failed for a reason of its own, and Snapshot has returned both
C21_Witness ==
    /\ CycleCompleted
    /\ outcome["p1"].kind = "err" /\ outcome["p2"].kind = "err"
    /\ peersData["p1"].Error = "status fetch failed"
    /\ peersData["p2"].Error = "empty base_url"
    /\ spc = "done"
    /\ Len(snap.Nodes) = 3

(***************************************************************************)
(* Claims about the rhythm of the refresh loop, under SpecCluster.         *)
(***************************************************************************)
\* no enabled peer is left out of the cycle that has run
AllFetched == \A id \in EnabledIds : outcome[id].kind \in {"ok", "err"}

\* C22: after Start the loop enters its first fetch of all enabled peers
\* without waiting for a tick: it reaches its select only from a cycle in
\* which every enabled peer was fetched; and from then on it begins a cycle
\* exactly by taking one tick from the ticker.
C22_FirstFetchThenOnePerTick ==
    /\ [](lpc = "select" => AllFetched)
    /\ [][ /\ (lpc = "new" /\ lpc' # "new") =>
                 (lpc' = "fetch" /\ fetchIdx' = 1 /\ tickPending' = tickPending)
           /\ (lpc # "select" /\ lpc' = "select") => (lpc = "fetch" /\ AllFetched')
           /\ (lpc = "select" /\ lpc' = "fetch") =>
                 (tickPending /\ ~tickPending' /\ fetchIdx' = 1)
           /\ (lpc = "fetch" /\ lpc' # "fetch") => lpc' = "select" ]_vars

\* the second cycle has just begun: the cache is full of the first one, the
\* tick is taken, no peer of this cycle is fetched yet
C22_Witness ==
    /\ lpc = "fetch" /\ fetchIdx = 1
    /\ DOMAIN peersData = EnabledIds
    /\ ~tickPending
    /\ \A id \in EnabledIds : outcome[id].kind = "none"

(***************************************************************************)
(* More claims about the cluster view, under SpecView.                     *)
(***************************************************************************)
\* the node the cluster view shows for a cache entry, whatever the window
ViewOf(entry) == MaterialisePeerSnapshot(entry, 0, now)

\* C23: when the fetch of a peer fails after an earlier fetch of it had
\* succeeded, the peer's node in the cluster view carries the error string
\* and the time of that last successful refresh.
C23_FailedPeerKeepsLastSuccess ==
    [][\A id \in DOMAIN peersData :
          (peersData[id].Error = "" /\ peersData'[id].Error # "") =>
              /\ ViewOf(peersData'[id]).Error # ""
              /\ ViewOf(peersData'[id]).UpdatedAt = peersData[id].UpdatedAt]_vars

\* C24: the ClusterSnapshot that Snapshot(start, end) returns has its
\* RangeEnd not after the time it was generated and not before its
\* RangeStart, for any start and end.
C24_RangeEndClamped ==
    spc = "done" => (snap.RangeEnd <= snap.GeneratedAt /\ snap.RangeEnd >= snap.RangeStart)

(***************************************************************************)
(* The polling loop: Start, rounds whose Append may fail on the disk, the  *)
(* ticker, Stop at any time, the clock moving meanwhile.                   *)
(***************************************************************************)
SpecMonitorInit == RestIdle /\ RestInit

SpecMonitorNext ==
    \/ MStart /\ UNCHANGED <<uptimeVars, now, storeVars, cacheVars, snapVars, loopVars,
                             bucketVars, timelineVars, connVars, readVars, pushVars, ovVars,
        lockVars, stopVars, auxVars>>
    \/ MStop /\ UNCHANGED <<uptimeVars, now, storeVars, cacheVars, snapVars, loopVars,
                            bucketVars, timelineVars, connVars, readVars, pushVars, ovVars,
        lockVars, stopVars, auxVars>>
    \/ MTimerFire /\ UNCHANGED <<uptimeVars, now, storeVars, cacheVars, snapVars, loopVars,
                                 bucketVars, timelineVars, connVars, readVars, pushVars, ovVars,
        lockVars, stopVars, auxVars>>
    \/ MRoundAppend /\ UNCHANGED <<uptimeVars, now, cacheVars, snapVars, loopVars,
                                   bucketVars, timelineVars, connVars, readVars, pushVars, ovVars,
        lockVars, stopVars, auxVars>>
    \/ PersistWriteOk /\ UNCHANGED <<uptimeVars, now, cacheVars, snapVars, loopVars, restVars>>
    \/ PersistWriteFail /\ UNCHANGED <<uptimeVars, now, cacheVars, snapVars, loopVars, restVars>>
    \/ PersistRenameOk /\ UNCHANGED <<uptimeVars, now, cacheVars, snapVars, loopVars, restVars>>
    \/ PersistRenameFail /\ UNCHANGED <<uptimeVars, now, cacheVars, snapVars, loopVars, restVars>>
    \/ MRoundReturn /\ UNCHANGED <<uptimeVars, now, storeVars, cacheVars, snapVars, loopVars,
                                   bucketVars, timelineVars, connVars, readVars, pushVars, ovVars,
        lockVars, stopVars, auxVars>>
    \/ MSelectTick /\ UNCHANGED <<uptimeVars, now, storeVars, cacheVars, snapVars, loopVars,
                                  bucketVars, timelineVars, connVars, readVars, pushVars, ovVars,
        lockVars, stopVars, auxVars>>
    \/ MSelectStop /\ UNCHANGED <<uptimeVars, now, storeVars, cacheVars, snapVars, loopVars,
                                  bucketVars, timelineVars, connVars, readVars, pushVars, ovVars,
        lockVars, stopVars, auxVars>>
    \/ now < MaxClock /\ Tick
          /\ UNCHANGED <<uptimeVars, storeVars, cacheVars, snapVars, loopVars, restVars>>

SpecMonitor == SpecMonitorInit /\ [][SpecMonitorNext]_vars

\* C25: when the Append of a round returns an error, RunOnce returns that
\* error and the loop goes on to its select; the loop ends only after Stop
\* was requested, and a tick taken from the ticker starts a round whether
\* or not the round before it failed.
C25_LoopSurvivesPersistError ==
    /\ [](mpc = "exit" => mStopped)
    /\ [][ /\ (mpc = "append" /\ mpc' # "append") => (mErr' = lastErr /\ mpc' = "select")
           /\ (mpc = "select" /\ mTick /\ ~mTick') => mpc' = "round" ]_vars

\* a round has begun on a tick after the round before it returned an error
C25_Witness ==
    /\ mpc = "round"
    /\ mErr # NoError
    /\ ~mStopped
    /\ Len(history) >= 1

(***************************************************************************)
(* One live-view connection from the upgrade to the end of its goroutines. *)
(* The handler and the reader are scheduled, and a select with a closed    *)
(* done channel among its ready cases takes that case in the end.          *)
(***************************************************************************)
SpecPushInit == RestIdle /\ RestInit

PushOthers == <<uptimeVars, now, storeVars, cacheVars, snapVars, loopVars,
                bucketVars, timelineVars, connVars, readVars, monVars, ovVars,
        lockVars, stopVars, auxVars>>

SpecPushNext ==
    \/ WFirstWriteOk /\ UNCHANGED PushOthers
    \/ WFirstWriteFail /\ UNCHANGED PushOthers
    \/ WClientGone /\ UNCHANGED PushOthers
    \/ WReaderRead /\ UNCHANGED PushOthers
    \/ WReaderExit /\ UNCHANGED PushOthers
    \/ WTimerFire /\ UNCHANGED PushOthers
    \/ WSelectTickOk /\ UNCHANGED PushOthers
    \/ WSelectTickFail /\ UNCHANGED PushOthers
    \/ WSelectDone /\ UNCHANGED PushOthers

SpecPush ==
    /\ SpecPushInit /\ [][SpecPushNext]_vars
    /\ WF_vars((WFirstWriteOk \/ WFirstWriteFail) /\ UNCHANGED PushOthers)
    /\ WF_vars(WReaderExit /\ UNCHANGED PushOthers)
    /\ WF_vars(WSelectDone /\ UNCHANGED PushOthers)

\* nothing of the connection is left: the handler has returned, the ticker
\* is stopped if it was made, the connection is closed, no reader runs
PushQuiet ==
    /\ wpc = "returned"
    /\ wTicker # "running"
    /\ wConn = "closed"
    /\ wReader # "running"

\* C26: the push loop of a connection ends after the client disconnects or
\* a write fails: the handler returns with its ticker stopped and the
\* connection closed, and the reader goroutine it started exits as well.
C26_PushLoopEnds ==
    /\ [](wpc = "returned" => (wTicker # "running" /\ wConn = "closed"))
    /\ ((wClient = "gone" \/ wpc = "returned") ~> PushQuiet)

\* a write failed while the client was connected and the reader was
\* waiting in ReadMessage; the reader has exited since
C26_Witness ==
    /\ PushQuiet
    /\ wClient = "connected"
    /\ wReader = "exited"
    /\ wSent >= 2 /\ wRead >= 1

(***************************************************************************)
(* pickServicesRoundRobin on its own: the groups are drawn one by one,     *)
(* the limit with the call.                                                *)
(***************************************************************************)
PickOthers == <<uptimeVars, now, storeVars, cacheVars, snapVars, loopVars,
                bucketVars, timelineVars, connVars, readVars, monVars, pushVars,
                gNodes, gResult, oPoints, oBuckets, oResult, lockVars, stopVars, auxVars>>

SpecPickInit == RestIdle /\ RestInit

SpecPickNext ==
    \/ KObserveGroup /\ UNCHANGED PickOthers
    \/ KPick /\ UNCHANGED PickOthers

SpecPick == SpecPickInit /\ [][SpecPickNext]_vars

\* how many of the returned entries come from group g
Taken(g) == Cardinality({p \in DOMAIN kResult.entries : kResult.entries[p].id[1] = g})

\* the place of a returned entry in its own group
Round(p) ==
    LET e == kResult.entries[p]
    IN  CHOOSE k \in DOMAIN kGroups[e.id[1]].services : kGroups[e.id[1]].services[k] = e

Exhausted(g) == Taken(g) = Len(kGroups[g].services)

\* C27: pickServicesRoundRobin returns min(limit, total) entries, all of
\* them when limit <= 0; no entry is returned twice; the entries of a group
\* are the first ones of the group in the group's order; the result runs
\* through the groups in order, round after round; and the numbers taken
\* from two groups that are not exhausted differ by at most one.
C27_RoundRobinPick ==
    kResult.done =>
        LET r == kResult.entries
            total == GroupsTotal(kGroups)
        IN  /\ Len(r) = IF kLimit <= 0 THEN total ELSE Min(kLimit, total)
            /\ \A p, q \in DOMAIN r : p # q => r[p] # r[q]
            /\ \A g \in DOMAIN kGroups :
                  SelectSeq(r, LAMBDA e : e.id[1] = g) =
                      SubSeq(kGroups[g].services, 1, Taken(g))
            /\ \A p, q \in DOMAIN r :
                  p < q => \/ Round(p) < Round(q)
                           \/ Round(p) = Round(q) /\ r[p].id[1] < r[q].id[1]
            /\ \A g, h \in DOMAIN kGroups :
                  (~Exhausted(g) /\ ~Exhausted(h)) =>
                      (Taken(g) - Taken(h) <= 1 /\ Taken(h) - Taken(g) <= 1)

\* a limit below the total cut a round short: a short group is exhausted,
\* a later group has given more than it, and a group has entries left
C27_Witness ==
    /\ kResult.done
    /\ kLimit > 0 /\ kLimit < GroupsTotal(kGroups)
    /\ \E g, h, j \in DOMAIN kGroups :
          /\ g < h
          /\ Exhausted(g) /\ Taken(h) > Taken(g)
          /\ ~Exhausted(j) /\ Taken(j) >= 1

(***************************************************************************)
(* buildServiceGroups on its own: the nodes of the snapshot are drawn one  *)
(* by one, in any order.                                                   *)
(***************************************************************************)
GroupsOthers == <<uptimeVars, now, storeVars, cacheVars, snapVars, loopVars,
                  bucketVars, timelineVars, connVars, readVars, monVars, pushVars,
                  kGroups, kLimit, kResult, oPoints, oBuckets, oResult, lockVars, stopVars, auxVars>>

SpecGroupsInit == RestIdle /\ RestInit

SpecGroupsNext ==
    \/ GObserveNode /\ UNCHANGED GroupsOthers
    \/ GBuild /\ UNCHANGED GroupsOthers

SpecGroups == SpecGroupsInit /\ [][SpecGroupsNext]_vars

\* the node of the snapshot a group was made of
NodeOf(group) ==
    gNodes[CHOOSE i \in DOMAIN gNodes : gNodes[i].Node.ID = group.nodeID]

\* the name a node is shown under, in lower case
ShownName(node) ==
    ToLower(IF TrimSpace(node.Name) = "" THEN node.ID ELSE TrimSpace(node.Name))

\* the nodes that have a service with timeline points
NodesWithServices ==
    {gNodes[i].Node.ID : i \in {k \in DOMAIN gNodes :
        \E t \in DOMAIN gNodes[k].ServiceTimelines :
            gNodes[k].ServiceTimelines[t].Timeline # <<>>}}

\* C28: the groups buildServiceGroups returns are those of the nodes with
\* services, each once, the local node's group before every peer's and the
\* peers' groups in ascending order of their names in lower case, two peers
\* of the same name in ascending order of their ids, whatever the order of
\* the nodes in the snapshot.
C28_LocalFirstThenPeersByName ==
    gResult.done =>
        LET r == gResult.groups
        IN  /\ {r[i].nodeID : i \in DOMAIN r} = NodesWithServices
            /\ Len(r) = Cardinality(NodesWithServices)
            /\ \A i, j \in DOMAIN r :
                  i < j =>
                      LET a == NodeOf(r[i])
                          b == NodeOf(r[j])
                      IN  /\ b.Source # "local"
                          /\ a.Source # "local" =>
                                \/ StrLess(ShownName(a.Node), ShownName(b.Node))
                                \/ /\ ShownName(a.Node) = ShownName(b.Node)
                                   /\ StrLess(a.Node.ID, b.Node.ID)

\* the snapshot lists a peer named in upper case, then the local node, then
\* a peer whose name sorts first; all three have services
C28_Witness ==
    /\ gResult.done
    /\ Len(gNodes) = 3 /\ Len(gResult.groups) = 3
    /\ gNodes[1].Node.Name = "Beta" /\ gNodes[2].Source = "local"
    /\ gNodes[3].Node.Name = "alpha"
    /\ gResult.groups[2].nodeID = gNodes[3].Node.ID

(***************************************************************************)
(* mapTimelineToBuckets on its own: the points are drawn one by one, in    *)
(* any order, the buckets with the call.                                   *)
(***************************************************************************)
MapOthers == <<uptimeVars, now, storeVars, cacheVars, snapVars, loopVars,
               bucketVars, timelineVars, connVars, readVars, monVars, pushVars,
               kGroups, kLimit, kResult, gNodes, gResult, lockVars, stopVars, auxVars>>

SpecMapInit == RestIdle /\ RestInit

SpecMapNext ==
    \/ OObservePoint /\ UNCHANGED MapOthers
    \/ OMap /\ UNCHANGED MapOthers

SpecMap == SpecMapInit /\ [][SpecMapNext]_vars

\* the point has times and shares more than an instant at a boundary with
\* the bucket; a point whose end is not after its start is the instant of
\* its start
Overlapping(point, bucket) ==
    /\ ~(point.Start = ZeroTime /\ point.End = ZeroTime)
    /\ point.Start < bucket.End
    /\ Max(point.Start, point.End) > bucket.Start

\* the class of a point, whatever the case and the spaces around it
PointIs(point, classes) == ToLower(TrimSpace(point.ClassName)) \in classes

PointsOver(bucket) == {oPoints[k] : k \in {j \in DOMAIN oPoints : Overlapping(oPoints[j], bucket)}}

\* C29: a bucket of the overview is issue when a point overlapping it is
\* WARNING or ERROR, otherwise ok when a point overlapping it is SUCCESS,
\* otherwise unknown; the buckets returned are the buckets given.
C29_BucketStateByPrecedence ==
    oResult.done =>
        /\ Len(oResult.buckets) = Len(oBuckets)
        /\ \A i \in DOMAIN oBuckets :
              LET b == oResult.buckets[i]
                  over == PointsOver(oBuckets[i])
              IN  /\ b.Start = oBuckets[i].Start /\ b.End = oBuckets[i].End
                  /\ b.State =
                        IF \E p \in over : PointIs(p, {"state-warning", "state-error"})
                        THEN "issue"
                        ELSE IF \E p \in over : PointIs(p, {"state-success"})
                        THEN "ok"
                        ELSE "unknown"

\* a SUCCESS point comes before an ERROR point and both overlap the second
\* bucket, the SUCCESS point alone the first
C29_Witness ==
    /\ oResult.done
    /\ Len(oPoints) = 2
    /\ oPoints[1].ClassName = "state-success" /\ oPoints[2].ClassName = "state-error"
    /\ Overlapping(oPoints[1], oBuckets[2]) /\ Overlapping(oPoints[2], oBuckets[2])
    /\ ~Overlapping(oPoints[2], oBuckets[1])
    /\ oResult.buckets[2].State = "issue"
    /\ oResult.buckets[1].State = "ok"

(***************************************************************************)
(* The rows of the calculator, under SpecUptime.                           *)
(***************************************************************************)
ConfiguredIds == {uTargets[i].ID : i \in DOMAIN uTargets}

ObservedIds ==
    UNION {{uEntries[i].Checks[j].ID : j \in DOMAIN uEntries[i].Checks} : i \in DOMAIN uEntries}

IdRank(id) == CHOOSE k \in DOMAIN IdOrder : IdOrder[k] = id

\* one row for every configured and every observed id, in strictly
\* ascending order of the ids
OneRowPerIdAscending ==
    /\ {uResult.rows[k].ID : k \in DOMAIN uResult.rows} = ConfiguredIds \cup ObservedIds
    /\ \A k, l \in DOMAIN uResult.rows :
          k < l => IdRank(uResult.rows[k].ID) < IdRank(uResult.rows[l].ID)

\* C30 as stated: one row for every configured and every observed id, in
\* strictly ascending id order, and the row of a configured target that no
\* entry mentions reports 0 passing out of 0 checks.
C30_UnmentionedTargetZeroOfZero ==
    uResult.done =>
        /\ OneRowPerIdAscending
        /\ \A k \in DOMAIN uResult.rows :
              uResult.rows[k].ID \notin ObservedIds =>
                  /\ uResult.rows[k].Passing = 0
                  /\ uResult.rows[k].TotalChecks = 0

\* C30, amended: one row for every configured and every observed id, in
\* strictly ascending id order, and the row of a configured target that no
\* entry mentions reports 0 passing and the missing-slot count of the
\* window as its failing and total checks: 0 out of 0 when no slot is
\* missing.
C30_UnmentionedTargetOnlyMissing ==
    uResult.done =>
        /\ OneRowPerIdAscending
        /\ \A k \in DOMAIN uResult.rows :
              uResult.rows[k].ID \notin ObservedIds =>
                  /\ uResult.rows[k].Passing = 0
                  /\ uResult.rows[k].Failing = uResult.rows[k].Missing
                  /\ uResult.rows[k].TotalChecks = uResult.rows[k].Missing
                  /\ uResult.rows[k].Missing = SpecMissing

\* two targets configured in descending order, entries that mention the
\* second row's target only, and missing slots
C30_Witness ==
    /\ uResult.done
    /\ Len(uTargets) = 2 /\ uTargets[1].ID = "b"
    /\ Len(uEntries) >= 1
    /\ ObservedIds = {"a"}
    /\ Len(uResult.rows) = 2
    /\ uResult.rows[2].ID = "b"
    /\ uResult.rows[2].TotalChecks > 0

(***************************************************************************)
(* The SUCCESS class of a bucket, under SpecBucket.                        *)
(***************************************************************************)
\* C31: a bucket is classified SUCCESS exactly when it holds a sample and
\* every sample in it reports ok, active or running.
C31_SuccessExactlyWhenAllResolve ==
    bResult.done =>
        (bResult.out.ClassName = "state-success"
            <=> /\ Len(bEntries) > 0
                /\ \A i \in DOMAIN bEntries : ResolvesOk(bEntries[i]))

\* a SUCCESS bucket that holds a sample with the OK flag and a sample that
\* reports Running without it
C31_Witness ==
    /\ bResult.done
    /\ bResult.out.ClassName = "state-success"
    /\ \E i, j \in DOMAIN bEntries :
          /\ bEntries[i].OK
          /\ ~bEntries[j].OK /\ bEntries[j].State = "Running"

(***************************************************************************)
(* The reads of a node that has recorded nothing and fetched nothing: the  *)
(* store and the peer cache stay empty, one caller at a time reads the     *)
(* store, computes the uptime rows, builds the timelines or takes a        *)
(* snapshot, the clock moving between the calls.                           *)
(***************************************************************************)
SpecEmptyInit ==
    /\ uEntries = <<>>
    /\ uStart \in 0 .. 1
    /\ uEnd \in 0 .. MaxTime
    /\ uInterval \in Intervals
    /\ uTargets \in TargetLists
    /\ uResult = NoResult
    /\ now = 0
    /\ StoreInit /\ CacheInit /\ SnapInit /\ LoopInit
    /\ BucketInit
    /\ tSamples = <<>> /\ tStart = 0 /\ tEnd \in {0, MaxSpan}
    /\ tPoints \in {1, MaxPoints} /\ tOut = NoTimeline /\ vOut = NoServices
    /\ ConnIdle /\ ReadIdle /\ MonIdle /\ PushIdle /\ OvIdle
        /\ LockIdle /\ StopIdle /\ AuxIdle

\* no call is under way and no result is with its caller
NoCall == ret.op = "none" /\ ~uResult.done /\ ~vOut.done /\ spc = "idle"

EmptyTail == <<bucketVars, connVars, monVars, pushVars, ovVars,
        lockVars, stopVars, auxVars>>

SpecEmptyNext ==
    \/ NoCall /\ now < MaxClock /\ Tick
          /\ UNCHANGED <<uptimeVars, storeVars, cacheVars, snapVars, loopVars,
                         timelineVars, readVars, EmptyTail>>
    \/ NoCall /\ ReadCall
          /\ UNCHANGED <<uptimeVars, cacheVars, snapVars, loopVars, timelineVars, EmptyTail>>
    \/ ReadReturn
          /\ UNCHANGED <<uptimeVars, cacheVars, snapVars, loopVars, timelineVars, EmptyTail>>
    \/ NoCall /\ UCompute
          /\ UNCHANGED <<now, storeVars, cacheVars, snapVars, loopVars,
                         timelineVars, readVars, EmptyTail>>
    \/ NoCall /\ VBuild
          /\ UNCHANGED <<uptimeVars, now, storeVars, cacheVars, snapVars, loopVars,
                         readVars, EmptyTail>>
    \/ NoCall /\ SnapshotCall
          /\ UNCHANGED <<uptimeVars, now, storeVars, cacheVars, loopVars,
                         timelineVars, readVars, EmptyTail>>
    \/ SnapshotLatest
          /\ UNCHANGED <<uptimeVars, now, storeVars, cacheVars, loopVars,
                         timelineVars, readVars, EmptyTail>>
    \/ SnapshotPeers
          /\ UNCHANGED <<uptimeVars, now, storeVars, cacheVars, loopVars,
                         timelineVars, readVars, EmptyTail>>
    \/ SnapshotReturn
          /\ UNCHANGED <<uptimeVars, now, storeVars, cacheVars, loopVars,
                         timelineVars, readVars, EmptyTail>>

SpecEmpty == SpecEmptyInit /\ [][SpecEmptyNext]_vars

\* what the store reads, the timelines and the snapshot give of nothing
EmptyReads ==
    /\ ret.op = "Latest" => ~ret.ok
    /\ ret.op \in {"History", "HistorySince", "HistoryN"} => ret.value = <<>>
    /\ vOut.done =>
          /\ {vOut.services[k].ServiceID : k \in DOMAIN vOut.services}
                = {vOut.targets[i].ID : i \in DOMAIN vOut.targets}
          /\ \A k \in DOMAIN vOut.services :
                /\ Len(vOut.services[k].Timeline) = tPoints
                /\ \A j \in DOMAIN vOut.services[k].Timeline :
                      vOut.services[k].Timeline[j].ClassName = "state-missing"
    /\ spc = "done" =>
          /\ Len(snap.Nodes) = 1
          /\ snap.Nodes[1].Node.ID = LocalNode.ID
          /\ snap.Nodes[1].Source = "local"
          /\ snap.Nodes[1].Error = ""
          /\ ~snap.Nodes[1].Status.present
          /\ snap.Nodes[1].History = <<>>

\* C32 as stated: on an empty store and an empty peer cache Latest reports
\* none, the history reads return nothing, every timeline bucket is
\* MISSING, Snapshot returns the local node alone and without an error, and
\* ComputeServiceUptime returns one zero-valued row for each configured
\* target.
C32_EmptyReadsGiveZeroRows ==
    /\ EmptyReads
    /\ uResult.done =>
          /\ {uResult.rows[k].ID : k \in DOMAIN uResult.rows} = ConfiguredIds
          /\ \A k \in DOMAIN uResult.rows :
                /\ uResult.rows[k].Passing = 0
                /\ uResult.rows[k].Failing = 0
                /\ uResult.rows[k].TotalChecks = 0
                /\ uResult.rows[k].Missing = 0
                /\ uResult.rows[k].UptimePercent = 0

\* C32, amended: the same, except that the row of a configured target has
\* 0 passing and 0 percent, and the missing-slot count of the window as its
\* failing and total checks, which is 0 when the interval is not positive
\* or the window is empty.
C32_EmptyReadsGiveMissingRows ==
    /\ EmptyReads
    /\ uResult.done =>
          /\ {uResult.rows[k].ID : k \in DOMAIN uResult.rows} = ConfiguredIds
          /\ \A k \in DOMAIN uResult.rows :
                /\ uResult.rows[k].Passing = 0
                /\ uResult.rows[k].UptimePercent = 0
                /\ uResult.rows[k].Failing = uResult.rows[k].Missing
                /\ uResult.rows[k].TotalChecks = uResult.rows[k].Missing
                /\ uResult.rows[k].Missing = SpecMissing
                /\ (uInterval <= 0 \/ uEnd <= uStart) => uResult.rows[k].Missing = 0
                /\ uResult.rows[k].LastState = ""

\* the timelines of two configured targets over an empty store, several
\* buckets each
C32_Witness ==
    /\ vOut.done
    /\ history = <<>> /\ peersData = <<>>
    /\ Len(vOut.services) = 2
    /\ Len(vOut.services[1].Timeline) >= 2

(***************************************************************************)
(* The locks: a refresh goroutine, a Snapshot call, another reader of the  *)
(* store and an Append, each at its own pace.                              *)
(***************************************************************************)
LocksOthers == <<uptimeVars, now, storeVars, cacheVars, snapVars, loopVars,
                 bucketVars, timelineVars, connVars, readVars, monVars, pushVars, ovVars,
                 stopVars, auxVars>>

SpecLocksInit == RestIdle /\ RestInit

SpecLocksNext ==
    \/ XFetchRequest /\ UNCHANGED LocksOthers
    \/ XFetchStatus /\ UNCHANGED LocksOthers
    \/ XFetchHistory /\ UNCHANGED LocksOthers
    \/ XFetchLock /\ UNCHANGED LocksOthers
    \/ XFetchUnlock /\ UNCHANGED LocksOthers
    \/ XSnapCall /\ UNCHANGED LocksOthers
    \/ XSnapSince /\ UNCHANGED LocksOthers
    \/ XSnapFilter /\ UNCHANGED LocksOthers
    \/ XSnapLatest /\ UNCHANGED LocksOthers
    \/ XSnapRLock /\ UNCHANGED LocksOthers
    \/ XSnapPeerFilter /\ UNCHANGED LocksOthers
    \/ XSnapPeerUptime /\ UNCHANGED LocksOthers
    \/ XSnapPeerDone /\ UNCHANGED LocksOthers
    \/ XSnapRUnlock /\ UNCHANGED LocksOthers
    \/ XSnapReturn /\ UNCHANGED LocksOthers
    \/ XReadRLock /\ UNCHANGED LocksOthers
    \/ XReadRUnlock /\ UNCHANGED LocksOthers
    \/ XAppendLock /\ UNCHANGED LocksOthers
    \/ XAppendUnlock /\ UNCHANGED LocksOthers

SpecLocks == SpecLocksInit /\ [][SpecLocksNext]_vars

\* the lock discipline of sync.RWMutex: a writer excludes everybody else
LockDiscipline ==
    /\ xMu.w # "none" => xMu.r = {}
    /\ xStoreMu.w # "none" => xStoreMu.r = {}

\* no goroutine holds the lock of the peer cache while its request to a peer
\* is on the network
NoCacheLockOnNetwork ==
    \A t \in Goroutines : Doing(t) = "network" => ~Holds(xMu, t)

\* a Snapshot call has completed while the fetch of a peer waits on the network
SnapshotDoneDuringFetch == xSnap = "done" /\ Doing("fetch") = "network"

\* a Snapshot call filters and recomputes the entry of a peer under s.mu
SnapshotWorksUnderCacheLock ==
    Doing("snap") \in {"filter", "recompute"} /\ Holds(xMu, "snap")

\* C33: the peer-cache lock is never held while a network call to a peer is
\* in progress, and neither the peer-cache lock nor the store lock is held
\* while data is filtered, recomputed or copied out for a caller.
C33_NoLockDuringNetworkOrCopy ==
    /\ NoCacheLockOnNetwork
    /\ \A t \in Goroutines :
          Doing(t) \in {"filter", "recompute", "copy"} =>
              ~Holds(xMu, t) /\ ~Holds(xStoreMu, t)

(***************************************************************************)
(* Claims about Stop and the peer cache, under SpecCluster.                *)
(***************************************************************************)
\* C36: calling Stop never changes the cached peer snapshots: once s.ctx is
\* cancelled no step of the refresh loop, whether of a fetch in flight or of
\* a loop started afterwards, writes to the peer cache.
C36_StopKeepsCache ==
    [][cancelled => peersData' = peersData]_vars

(***************************************************************************)
(* Start and Stop of the two monitors: Start at most once, two callers of  *)
(* Stop that call it any number of times, at any moment.  The goroutine of *)
(* run and a Stop that has begun go on by themselves; whether Start or a   *)
(* Stop is called is up to the callers.                                    *)
(***************************************************************************)
StopOthers == <<uptimeVars, now, storeVars, cacheVars, snapVars, loopVars,
                bucketVars, timelineVars, connVars, readVars, monVars, pushVars, ovVars,
                lockVars, auxVars>>

SpecStopInit ==
    /\ RestIdle
    /\ BucketInit /\ TimelineIdle /\ ConnIdle /\ ReadIdle /\ MonIdle /\ PushIdle /\ OvIdle
    /\ LockIdle /\ AuxIdle
    /\ qEnabled \in BOOLEAN
    /\ qStopCh = "open" /\ qDoneCh = "open"
    /\ qRun = "none" /\ qStop = [c \in Stoppers |-> "idle"] /\ qStarted = FALSE

StopSteps ==
    \/ QRunFirst
    \/ QRunStop
    \/ \E c \in Stoppers : QStopClose(c)
    \/ \E c \in Stoppers : QStopWait(c)

SpecStopNext ==
    \/ QStart /\ UNCHANGED StopOthers
    \/ QRunFirst /\ UNCHANGED StopOthers
    \/ QRunStop /\ UNCHANGED StopOthers
    \/ (\E c \in Stoppers : QStopSelect(c)) /\ UNCHANGED StopOthers
    \/ (\E c \in Stoppers : QStopClose(c)) /\ UNCHANGED StopOthers
    \/ (\E c \in Stoppers : QStopWait(c)) /\ UNCHANGED StopOthers
    \/ (\E c \in Stoppers : QStopAgain(c)) /\ UNCHANGED StopOthers

SpecStop == SpecStopInit /\ [][SpecStopNext]_vars /\ WF_vars(StopSteps /\ UNCHANGED StopOthers)

\* stopCh is never closed twice
StopChClosedOnce == ~Panicked

\* a Stop call that has begun returns
StopReturns ==
    \A c \in Stoppers : (qStop[c] \in {"close", "wait"}) ~> (qStop[c] = "returned")

\* a Stop call waits for doneCh and Start has not been called
StopWaitsBeforeStart == ~qStarted /\ \E c \in Stoppers : qStop[c] = "wait"

\* C37: every call of Stop returns normally, for every interleaving of Start
\* and of one or more Stop calls: stopCh is never closed twice and no Stop
\* call waits for doneCh for ever.
C37_EveryStopReturns == []StopChClosedOnce /\ StopReturns

(***************************************************************************)
(* The hold-over threshold of the connectivity timeline: up to MaxProbes   *)
(* probes, their times seconds to hours apart, then the timeline is built. *)
(***************************************************************************)
GapOthers == <<uptimeVars, now, storeVars, cacheVars, snapVars, loopVars,
               bucketVars, timelineVars, readVars, monVars, pushVars, ovVars,
               lockVars, stopVars, auxVars>>

SpecGapInit ==
    /\ RestIdle
    /\ BucketInit /\ TimelineIdle /\ ConnInit /\ ReadIdle /\ MonIdle /\ PushIdle /\ OvIdle
    /\ LockIdle /\ StopIdle /\ AuxIdle

SpecGapNext ==
    \/ CObserveProbe /\ UNCHANGED GapOthers
    \/ CBuild /\ UNCHANGED GapOthers

SpecGap == SpecGapInit /\ [][SpecGapNext]_vars

\* the times of the probes in ascending order, and the intervals between
\* consecutive ones
ProbeTimesSorted ==
    SortDurations([i \in DOMAIN cEntries |-> cEntries[i].CheckedAt])

ProbeIntervals ==
    [i \in 1 .. Len(ProbeTimesSorted) - 1 |-> ProbeTimesSorted[i + 1] - ProbeTimesSorted[i]]

\* the medians of the intervals: the intervals with at least half of the
\* intervals on either side, themselves included
IntervalMedians ==
    {ProbeIntervals[k] : k \in
        {j \in DOMAIN ProbeIntervals :
            /\ 2 * Cardinality({i \in DOMAIN ProbeIntervals :
                                   ProbeIntervals[i] <= ProbeIntervals[j]})
                   >= Len(ProbeIntervals)
            /\ 2 * Cardinality({i \in DOMAIN ProbeIntervals :
                                   ProbeIntervals[i] >= ProbeIntervals[j]})
                   >= Len(ProbeIntervals)}}

Clamp(x, lo, hi) == IF x < lo THEN lo ELSE IF x > hi THEN hi ELSE x

GapAtFloor == cOut.done /\ Len(cEntries) >= 2 /\ GapThreshold = TimelineMinute
                /\ \A m \in IntervalMedians : 2 * m < TimelineMinute

GapAtCeiling == cOut.done /\ Len(cEntries) >= 2 /\ GapThreshold = 120 * TimelineMinute
                  /\ \A m \in IntervalMedians : 2 * m > 120 * TimelineMinute

(***************************************************************************)
(* Claims about the order of the services of a group, under SpecGroups.    *)
(***************************************************************************)
\* the configured target list of a node: the server's own for the local
\* node, the one the peer sent for a peer
ConfiguredTargets(node) == IF node.Source = "local" THEN LocalTargets ELSE node.Targets

\* the positions of an id in a target list
PositionsOf(targets, id) == {k \in DOMAIN targets : targets[k].ID = id}

\* the name a service is shown under, in lower case
ShownService(node, serviceID) ==
    LET t == node.ServiceTimelines[CHOOSE k \in DOMAIN node.ServiceTimelines :
                                       node.ServiceTimelines[k].ServiceID = serviceID]
    IN  ToLower(IF TrimSpace(t.ServiceName) = "" THEN TrimSpace(t.ServiceID)
                ELSE TrimSpace(t.ServiceName))

\* the sequence in reverse
Reverse(seq) == [i \in DOMAIN seq |-> seq[Len(seq) + 1 - i]]

\* C35: within one group the services are in the order of the positions of
\* their ids in the node's configured target list, those with a position
\* before those without, and those without in ascending order of their
\* names in lower case, equal names in ascending order of their ids; the
\* node's timelines taken in the reverse order give the same group.
C35_ServiceOrderWithinGroup ==
    gResult.done =>
        \A g \in DOMAIN gResult.groups :
            LET group == gResult.groups[g]
                node == NodeOf(group)
                targets == ConfiguredTargets(node)
                r == group.services
            IN  /\ \A i, j \in DOMAIN r :
                      i < j =>
                          LET a == r[i].id[2]
                              b == r[j].id[2]
                              pa == PositionsOf(targets, a)
                              pb == PositionsOf(targets, b)
                          IN  IF pa # {} /\ pb # {}
                              THEN \A x \in pa, y \in pb : x < y
                              ELSE IF pa = {} /\ pb = {}
                              THEN \/ StrLess(ShownService(node, a), ShownService(node, b))
                                   \/ /\ ShownService(node, a) = ShownService(node, b)
                                      /\ StrLess(a, b)
                              ELSE pa # {}
                /\ NodeGroup([node EXCEPT !.ServiceTimelines = Reverse(@)]).services = r

\* a peer's group of two services without a target list, listed "Beta" then
\* "alpha" and shown "alpha" then "Beta", and another group of two services
\* in the order of the target list, the reverse of the order they were listed in
C35_Witness ==
    /\ gResult.done
    /\ \E g, h \in DOMAIN gResult.groups :
          LET r == gResult.groups[g].services
              q == gResult.groups[h].services
              listed == NodeOf(gResult.groups[h]).ServiceTimelines
          IN  /\ ~gResult.groups[g].isLocal
              /\ Len(r) = 2 /\ ~r[1].hasOrder /\ ~r[2].hasOrder
              /\ r[1].name = "alpha" /\ r[2].name = "Beta"
              /\ Len(q) = 2 /\ q[1].hasOrder /\ q[2].hasOrder
              /\ listed[1].ServiceID = q[2].id[2] /\ listed[2].ServiceID = q[1].id[2]

(***************************************************************************)
(* Append and persist with the failures counted: the writes and renames of *)
(* persist succeed or fail, the process crashes and is started again.      *)
(***************************************************************************)
AppendOthers == <<uptimeVars, cacheVars, snapVars, loopVars,
                  bucketVars, timelineVars, connVars, readVars, monVars, pushVars, ovVars,
                  lockVars, stopVars>>

SpecAppendInit == RestIdle /\ RestInit

SpecAppendNext ==
    \/ AppendBegin /\ UNCHANGED <<now, aFailed, AppendOthers>>
    \/ PersistWriteOk /\ UNCHANGED <<now, aFailed, AppendOthers>>
    \/ PersistWriteFail /\ aFailed' = aFailed + 1 /\ UNCHANGED <<now, AppendOthers>>
    \/ PersistRenameOk /\ UNCHANGED <<now, aFailed, AppendOthers>>
    \/ PersistRenameFail /\ aFailed' = aFailed + 1 /\ UNCHANGED <<now, AppendOthers>>
    \/ Crash /\ aFailed' = 0 /\ UNCHANGED <<now, AppendOthers>>
    \/ Restart /\ UNCHANGED <<now, aFailed, AppendOthers>>
    \/ now < MaxClock /\ Tick /\ UNCHANGED <<storeVars, aFailed, AppendOthers>>

SpecAppend == SpecAppendInit /\ [][SpecAppendNext]_vars

\* the step in which an Append returns nil
AppendReturnsNil ==
    proc = "up" /\ proc' = "up" /\ apc = "rename" /\ apc' = "idle" /\ lastErr' = NoError

\* C38: after every Append that returns success the durable history file is
\* the serialization of exactly the current in-memory series, whatever
\* Appends failed before it.
C38_FileIsSeriesAfterSuccess ==
    [][AppendReturnsNil =>
          /\ file' = Marshal(history')
          /\ Unmarshal(file').ok /\ Unmarshal(file').entries = history']_vars

\* an Append has returned nil after two Appends that failed: the file holds
\* the three entries of the series
C38_Witness ==
    /\ proc = "up" /\ apc = "idle" /\ lastErr = NoError
    /\ aFailed = 2
    /\ Len(history) = 3
    /\ file = Marshal(history)

(***************************************************************************)
(* Claims about the cursor of buildTimeline, under SpecTimeline.           *)
(***************************************************************************)
InTimelineWindow(sample) == tStart <= sample.Timestamp /\ sample.Timestamp <= tEnd

\* the time range of a bucket contains t
RangeContains(point, t) == point.Start <= t /\ t <= point.End

\* the detail records of a bucket that carry the timestamp t
DetailCount(point, t) ==
    Cardinality({d \in DOMAIN point.Details : point.Details[d].Timestamp = t})

\* the same over the first n buckets of the timeline
RECURSIVE DetailTotal(_, _)
DetailTotal(n, t) ==
    IF n = 0 THEN 0 ELSE DetailCount(tOut.points[n], t) + DetailTotal(n - 1, t)

\* the failing samples with the timestamp t
FailingAt(t) ==
    Cardinality({k \in DOMAIN tSamples : ~tSamples[k].OK /\ tSamples[k].Timestamp = t})

\* a sample with its timestamp at the end of a window that is no shorter
\* than its count of buckets
SampleAtEnd ==
    /\ tOut.done
    /\ tEnd - tStart >= tPoints
    /\ \E k \in DOMAIN tSamples : tSamples[k].Timestamp = tEnd

\* C39: every sample with start <= t <= end is evaluated in exactly one
\* bucket, one whose time range contains t, and a sample outside the window
\* in none.  A failing sample that is evaluated leaves a detail record with
\* its timestamp in its bucket, and a bucket that evaluated a sample of the
\* model is not MISSING.
C39_EverySampleInOneBucket ==
    tOut.done =>
        \A k \in DOMAIN tSamples :
            LET sample == tSamples[k]
                t == sample.Timestamp
                points == tOut.points
            IN  IF InTimelineWindow(sample)
                THEN /\ \E i \in DOMAIN points :
                            /\ RangeContains(points[i], t)
                            /\ points[i].ClassName # "state-missing"
                     /\ ~sample.OK =>
                            /\ DetailTotal(Len(points), t) = FailingAt(t)
                            /\ \A i \in DOMAIN points :
                                  DetailCount(points[i], t) > 0 => RangeContains(points[i], t)
                ELSE ~sample.OK => DetailTotal(Len(points), t) = 0

\* the same but for the samples at the end of the window and for the
\* windows shorter than their count of buckets
SamplesBeforeEndInOneBucket ==
    (tOut.done /\ tEnd - tStart >= tPoints) =>
        \A k \in DOMAIN tSamples :
            LET sample == tSamples[k]
                t == sample.Timestamp
                points == tOut.points
            IN  IF InTimelineWindow(sample) /\ t # tEnd
                THEN /\ \E i \in DOMAIN points :
                            /\ RangeContains(points[i], t)
                            /\ points[i].ClassName # "state-missing"
                     /\ ~sample.OK =>
                            /\ DetailTotal(Len(points), t) = FailingAt(t)
                            /\ \A i \in DOMAIN points :
                                  DetailCount(points[i], t) > 0 => RangeContains(points[i], t)
                ELSE ~sample.OK => DetailTotal(Len(points), t) = 0

(***************************************************************************)
(* Claims about the buckets of the connectivity timeline that hold a       *)
(* sample, under SpecConnectivity.                                         *)
(***************************************************************************)
\* the chronologically last of the probes inside a bucket
LastProbeIn(point) ==
    CHOOSE e \in ProbesIn(point) : \A f \in ProbesIn(point) : f.CheckedAt <= e.CheckedAt

\* the class of a single probe: ok is SUCCESS, an error text is ERROR,
\* neither is WARNING
ProbeClass(e) ==
    IF e.OK THEN "state-success"
    ELSE IF e.Error # "" THEN "state-error"
    ELSE "state-warning"

\* C40: a bucket of the connectivity timeline that contains at least one
\* sample has the class of its chronologically last sample alone, whatever
\* the earlier samples of the bucket are.
C40_BucketHasClassOfLastSample ==
    cOut.done =>
        \A i \in DOMAIN cOut.points :
            LET point == cOut.points[i]
            IN  ProbesIn(point) # {} =>
                    point.ClassName = ProbeClass(LastProbeIn(point))

\* a bucket with a probe that failed with an error text, followed in the same
\* bucket by a probe that succeeded, is SUCCESS
C40_Witness ==
    /\ cOut.done
    /\ \E i \in DOMAIN cOut.points :
          LET point == cOut.points[i]
          IN  /\ point.ClassName = "state-success"
              /\ \E e \in ProbesIn(point) :
                    /\ ~e.OK /\ e.Error # ""
                    /\ point.Start < e.CheckedAt /\ e.CheckedAt < LastProbeIn(point).CheckedAt
====
